---- MODULE Spec2Model ----
(***************************************************************************)
(* Snapshot ingestion pipeline of albion_helper:                           *)
(*   app/data/history_db.py    HistoryDatabase (the time-series store)     *)
(*   app/data/dump_manager.py  DumpManager (selection, download, import,   *)
(*                             run-state tracker, single-flight run lock)  *)
(*                                                                         *)
(* Python's None is the empty set and a present value v is {v}, so that a  *)
(* nullable field can be compared whatever the type of its value.          *)
(***************************************************************************)
EXTENDS Integers, Sequences, FiniteSets, TLC

VARIABLES
    market_history,    \* rows of table market_history (history_db.py:29-40)
    import_metadata,   \* rows of table import_metadata (history_db.py:57-64)
    indexes_present,   \* the secondary indexes idx_item_location / idx_timestamp exist
    download_dir,      \* files of DumpManager.download_dir: [name, state], complete or partial
    update_lock,       \* DumpManager._update_lock: None, or {p} when p acquired it
    progress,          \* DumpManager._progress (the Run)
    clock,             \* the wall clock read by _now_iso
    run_seq,           \* how many run ids uuid4 has handed out
    proc,              \* per caller: position in update()/start_background_update() and locals
    call               \* the public call completed by the latest step, and what it returned

vars == <<market_history, import_metadata, indexes_present, download_dir,
          update_lock, progress, clock, run_seq, proc, call>>

storeVars == <<market_history, import_metadata, indexes_present>>

None == {}
Some(v) == {v}
Val(o) == CHOOSE v \in o : TRUE

\* ---------------------------------------------------------------- bounds

MaxBatch == 2      \* rows in one batch handed to a store write
MaxAvail == 2      \* snapshots in one remote listing
MaxRuns == 2       \* runs started in one behaviour
MaxClock == 1      \* readings of the wall clock: 0..MaxClock

\* ------------------------------------------------------------------- time
\* A datetime is a whole number of seconds, Days x SecondsOfDay; a stored TIMESTAMP
\* also carries a sub-second part and is a number of ticks.

Days == {0, 1}
SecondsOfDay == {0, 1}
Fractions == {0, 1}

DayLen == Cardinality(SecondsOfDay)
SubSecond == Cardinality(Fractions)

DateTime(day, sec) == day * DayLen + sec
Tick(seconds, frac) == seconds * SubSecond + frac

DateTimes == {DateTime(d, s) : d \in Days, s \in SecondsOfDay}
Ticks == {Tick(dt, f) : dt \in DateTimes, f \in Fractions}

Max2(a, b) == IF a >= b THEN a ELSE b
Min2(a, b) == IF a <= b THEN a ELSE b

\* ------------------------------------------------------- time-series store

\* PRIMARY KEY (item_id, location, quality, timestamp)
RowKey(r) == <<r.item_id, r.location, r.quality, r.timestamp>>

HistoryRow(ts, sell, buy, cnt) ==
    [item_id |-> "T4_BAG", location |-> "Caerleon", quality |-> 1, timestamp |-> ts,
     sell_price_min |-> sell, sell_price_max |-> sell,
     buy_price_min |-> buy, buy_price_max |-> buy, item_count |-> cnt]

\* COALESCE(excluded.c, market_history.c)
Coalesce(incoming, stored) == IF incoming # None THEN incoming ELSE stored

\* ON CONFLICT (item_id, location, quality, timestamp) DO UPDATE SET c = COALESCE(...)
ConflictUpdate(old, new) ==
    [old EXCEPT !.sell_price_min = Coalesce(new.sell_price_min, old.sell_price_min),
                !.sell_price_max = Coalesce(new.sell_price_max, old.sell_price_max),
                !.buy_price_min = Coalesce(new.buy_price_min, old.buy_price_min),
                !.buy_price_max = Coalesce(new.buy_price_max, old.buy_price_max),
                !.item_count = Coalesce(new.item_count, old.item_count)]

\* (mutant) no conflict clause and no key: the row is added next to the stored one
AppendRow(table, r) == table \cup {r}

\* INSERT INTO market_history ... ON CONFLICT ... DO UPDATE, one row
UpsertRow(table, r) ==
    IF \E x \in table : RowKey(x) = RowKey(r)
    THEN {x \in table : RowKey(x) # RowKey(r)}
            \cup {ConflictUpdate(x, r) : x \in {y \in table : RowKey(y) = RowKey(r)}}
    ELSE table \cup {r}

\* INSERT OR REPLACE INTO market_history ... : every column takes the written value
ReplaceRow(table, r) == {x \in table : RowKey(x) # RowKey(r)} \cup {r}

RECURSIVE UpsertAll(_, _)
UpsertAll(table, rows) ==
    IF rows = <<>> THEN table ELSE UpsertAll(UpsertRow(table, Head(rows)), Tail(rows))

RECURSIVE ReplaceAll(_, _)
ReplaceAll(table, rows) ==
    IF rows = <<>> THEN table ELSE ReplaceAll(ReplaceRow(table, Head(rows)), Tail(rows))

HasDuplicateKeys(rows) ==
    \E i, j \in 1..Len(rows) : i # j /\ RowKey(rows[i]) = RowKey(rows[j])

\* SELECT MAX(timestamp) FROM market_history
MaxTimestamp(table) ==
    IF table = {} THEN None
    ELSE Some(CHOOSE t \in {r.timestamp : r \in table} :
                 \A r \in table : r.timestamp <= t)

\* The outcomes of HistoryDatabase.bulk_insert_from_csv(csv): <<table, inserted, raised>>.
\* DuckDB refuses a statement that would update one row twice; such a batch either
\* raises with the table untouched or is applied row by row, by engine version.
BulkInsertOutcomes(table, csv) ==
    LET applied == UpsertAll(table, csv)
        ok == <<applied, Cardinality(applied) - Cardinality(table), FALSE>>
    IN  IF HasDuplicateKeys(csv) THEN {ok, <<table, 0, TRUE>>} ELSE {ok}

\* HistoryDatabase.insert_records(records): <<table, inserted>>
InsertRecordsOutcome(table, records) ==
    IF records = <<>> THEN <<table, 0>>
    ELSE <<ReplaceAll(table, records), Len(records)>>

MetadataRow(name, count) ==
    [dump_name |-> name, dump_type |-> "daily", record_count |-> count]

\* HistoryDatabase.get_imported_dumps()
GetImportedDumps(metadata) == {m.dump_name : m \in metadata}

\* ------------------------------------------------------ snapshot selection

\* a timestamp text in which no "YYYY-MM-DD HH:MM:SS" and no "YYYY-MM-DD" is found
Unparsable == 0 - 1

\* _normalize_timestamp_for_compare on a stored TIMESTAMP rendered as text: the
\* match keeps "YYYY-MM-DD HH:MM:SS" and drops the fractional seconds; a text
\* without a date has no normal form
NormalizeTimestampForCompare(ts) ==
    IF ts = None \/ ts = Some(Unparsable) THEN None ELSE Some(Val(ts) \div SubSecond)

\* DumpManager._get_current_max_timestamp
GetCurrentMaxTimestamp(table) == NormalizeTimestampForCompare(MaxTimestamp(table))

\* DumpManager._get_current_max_datetime: the normalized text parsed as a datetime
GetCurrentMaxDatetime(table) == GetCurrentMaxTimestamp(table)

\* A snapshot name db_backup_<date>[T<time>].tgz, or a name with no decodable date
DumpName(day, tod) == [day |-> day, tod |-> tod]
UndatedName == DumpName(None, None)

DumpInfo(name, modified) ==
    [name |-> name, size_bytes |-> 1, modified_date |-> modified, dump_type |-> "daily"]

\* DumpManager._dump_coverage_end
DumpCoverageEnd(dump) ==
    IF dump.dump_type = "daily" /\ dump.name.day # None
    THEN IF dump.name.tod # None
         THEN Some(DateTime(Val(dump.name.day), Val(dump.name.tod)))
         ELSE Some(DateTime(Val(dump.name.day), DayLen - 1))
    ELSE None

\* DumpManager._daily_snapshot_sort_key
DailySnapshotSortKey(dump) ==
    LET coverage_end == DumpCoverageEnd(dump)
    IN  IF coverage_end # None THEN <<Val(coverage_end), dump.modified_date>>
        ELSE <<dump.modified_date, dump.modified_date>>

KeyGreater(a, b) == a[1] > b[1] \/ (a[1] = b[1] /\ a[2] > b[2])

\* (mutant) the candidates are walked in listing order
ListingOrder(dumps) == dumps

\* list.sort(key=..., reverse=True): descending, equal keys keep their order
RECURSIVE InsertDesc(_, _)
InsertDesc(sorted, d) ==
    IF sorted = <<>> THEN <<d>>
    ELSE IF KeyGreater(DailySnapshotSortKey(d), DailySnapshotSortKey(Head(sorted)))
         THEN <<d>> \o sorted
         ELSE <<Head(sorted)>> \o InsertDesc(Tail(sorted), d)

RECURSIVE SortDesc(_)
SortDesc(dumps) ==
    IF dumps = <<>> THEN <<>>
    ELSE InsertDesc(SortDesc(SubSeq(dumps, 1, Len(dumps) - 1)), dumps[Len(dumps)])

RECURSIVE SelectSeq2(_, _)
SelectSeq2(seq, keep) ==
    IF seq = <<>> THEN <<>>
    ELSE (IF Head(seq) \in keep THEN <<Head(seq)>> ELSE <<>>) \o SelectSeq2(Tail(seq), keep)

\* (mutant) the walk accepts a coverage end equal to the store's max
PickNewerOrEqualCoverageDump(dumps, current_max) ==
    IF dumps = <<>> THEN None
    ELSE IF current_max = None THEN Some(dumps[1])
    ELSE LET extends(d) == DumpCoverageEnd(d) = None
                             \/ Val(DumpCoverageEnd(d)) >= Val(current_max)
             hits == {i \in 1..Len(dumps) : extends(dumps[i])}
         IN  IF hits = {} THEN None
             ELSE Some(dumps[CHOOSE i \in hits : \A j \in hits : i <= j])

\* DumpManager._pick_newer_coverage_dump
PickNewerCoverageDump(dumps, current_max) ==
    IF dumps = <<>> THEN None
    ELSE IF current_max = None THEN Some(dumps[1])
    ELSE LET extends(d) == DumpCoverageEnd(d) = None
                             \/ Val(DumpCoverageEnd(d)) > Val(current_max)
             hits == {i \in 1..Len(dumps) : extends(dumps[i])}
         IN  IF hits = {} THEN None
             ELSE Some(dumps[CHOOSE i \in hits : \A j \in hits : i <= j])

\* (mutant) every not-yet-imported daily snapshot is returned, max_dumps is not applied
RecommendEveryDaily(available, max_dumps, imported, table) ==
    SortDesc(SelectSeq2(available, {d \in {available[i] : i \in 1..Len(available)} :
                                       d.dump_type = "daily" /\ d.name \notin imported}))

\* DumpManager.get_recommended_dumps once `imported` has been read
RecommendFrom(available, max_dumps, imported, table) ==
    LET current_max == GetCurrentMaxDatetime(table)
        daily_snapshots ==
            SelectSeq2(available, {d \in {available[i] : i \in 1..Len(available)} :
                                      d.dump_type = "daily" /\ d.name \notin imported})
        daily_candidate == PickNewerCoverageDump(SortDesc(daily_snapshots), current_max)
    IN  IF daily_candidate # None
        THEN SubSeq(<<Val(daily_candidate)>>, 1, Min2(1, Max2(1, max_dumps)))
        ELSE <<>>

\* DumpManager.get_recommended_dumps
GetRecommendedDumps(available, max_dumps, metadata, table) ==
    RecommendFrom(available, max_dumps, GetImportedDumps(metadata), table)

\* DumpManager._is_dump_fully_covered
IsDumpFullyCovered(dump_info, current_max_timestamp) ==
    /\ current_max_timestamp # None
    /\ DumpCoverageEnd(dump_info) # None
    /\ Val(DumpCoverageEnd(dump_info)) <= Val(current_max_timestamp)

\* ------------------------------------------------------ run-state tracker

\* progress_pct is kept in thousandths of a percent
Pct(x) == x * 1000

\* DumpManager._empty_progress_state ("max_dumps" is the key _start_progress adds)
EmptyProgressState ==
    [run_id |-> None, status |-> "idle", stage |-> "idle",
     message |-> "No database update in progress", progress_pct |-> Pct(0),
     started_at |-> None, updated_at |-> None, finished_at |-> None,
     total_dumps |-> 0, completed_dumps |-> 0, current_dump |-> None,
     downloaded_bytes |-> 0, download_total_bytes |-> 0,
     records_parsed |-> 0, records_skipped_existing |-> 0, records_imported |-> 0,
     errors |-> <<>>, result |-> None, max_dumps |-> None]

\* the keys whose value is itself nullable; every other key holds a plain value
NullableKeys == {"run_id", "started_at", "updated_at", "finished_at", "current_dump",
                 "result", "max_dumps"}

\* (mutant) the new Run is written over the old one, whose other fields stay
StartProgressOverOld(run_id, max_dumps, now) ==
    [progress EXCEPT !.run_id = Some(run_id), !.status = "running",
                     !.stage = "starting",
                     !.message = "Starting database update...",
                     !.progress_pct = Pct(1),
                     !.started_at = Some(now), !.updated_at = Some(now),
                     !.max_dumps = Some(max_dumps)]

\* DumpManager._start_progress
StartProgress(run_id, max_dumps, now) ==
    [EmptyProgressState EXCEPT !.run_id = Some(run_id), !.status = "running",
                               !.stage = "starting",
                               !.message = "Starting database update...",
                               !.progress_pct = Pct(1),
                               !.started_at = Some(now), !.updated_at = Some(now),
                               !.max_dumps = Some(max_dumps)]

\* (mutant) the value is stored as passed
StoreAsPassed(v) == v

\* max(0.0, min(100.0, float(value)))
ClampPct(v) == Max2(Pct(0), Min2(Pct(100), v))

\* (mutant) the run_id guard is dropped: every call is applied
SetProgressUnguarded(p, run_id, changes, now) ==
    [k \in DOMAIN p |->
        IF k = "updated_at" THEN Some(now)
        ELSE IF k \in DOMAIN changes /\ changes[k] # None
             THEN IF k = "progress_pct" THEN ClampPct(Val(changes[k]))
                  ELSE IF k \in NullableKeys THEN changes[k] ELSE Val(changes[k])
             ELSE p[k]]

\* DumpManager._set_progress(run_id=..., **changes) applied to the Run p. `run_id` is
\* None when the caller passes none; a change whose value is None is skipped.
SetProgress(p, run_id, changes, now) ==
    IF run_id # None /\ p.run_id # run_id THEN p
    ELSE [k \in DOMAIN p |->
            IF k = "updated_at" THEN Some(now)
            ELSE IF k \in DOMAIN changes /\ changes[k] # None
                 THEN IF k = "progress_pct" THEN ClampPct(Val(changes[k]))
                      ELSE IF k \in NullableKeys THEN changes[k] ELSE Val(changes[k])
                 ELSE p[k]]

\* (mutant) the run_id guard of _finalize_progress is dropped
FinalizeProgressUnguarded(p, run_id, status, message, now) ==
    [p EXCEPT !.status = status, !.stage = status, !.message = message,
              !.progress_pct = Pct(100), !.updated_at = Some(now),
              !.finished_at = Some(now)]

\* DumpManager._finalize_progress
FinalizeProgress(p, run_id, status, message, now) ==
    IF p.run_id # run_id THEN p
    ELSE [p EXCEPT !.status = status, !.stage = status, !.message = message,
                   !.progress_pct = Pct(100), !.updated_at = Some(now),
                   !.finished_at = Some(now)]

\* round(progress_pct, 2): to the nearest hundredth of a percent, a tie going to the
\* even hundredth
RoundPct(v) ==
    LET q == v \div 10
        r == v % 10
    IN  IF r < 5 \/ (r = 5 /\ q % 2 = 0) THEN q * 10 ELSE (q + 1) * 10

\* DumpManager._progress_snapshot_locked
ProgressSnapshot(p, now) ==
    LET elapsed == IF p.started_at = None THEN None
                   ELSE Some(Max2(0, (IF p.finished_at # None THEN Val(p.finished_at)
                                      ELSE now) - Val(p.started_at)))
        eta == IF p.status = "running" /\ elapsed # None /\ p.progress_pct > 0
               THEN Some(Max2(0, (Val(elapsed) * (Pct(100) - p.progress_pct))
                                    \div p.progress_pct))
               ELSE None
    IN  [progress |-> [p EXCEPT !.progress_pct = RoundPct(p.progress_pct)],
         elapsed_seconds |-> elapsed, eta_seconds |-> eta]

\* ------------------------------------------ the tracker's methods, any caller

RunIds == 1..MaxRuns
\* the run_id argument: _set_progress defaults it to None, _finalize_progress requires it
RunIdArgs == {None} \cup {Some(r) : r \in RunIds}

\* keyword arguments of _set_progress calls, in and out of range, None included
TrackerChanges ==
    { [stage |-> Some("importing"), progress_pct |-> Some(Pct(12) + 345)],
      [progress_pct |-> Some(Pct(150))],
      [progress_pct |-> Some(Pct(0 - 5)), message |-> None],
      [errors |-> Some(<<"boom">>), completed_dumps |-> Some(1)] }

TerminalStatuses == {"completed", "failed"}

\* a completed call of a tracker method: its run_id argument, whether it raised, and
\* the snapshot it returned (None for the methods that return nothing)
TrackerCall(op, run_id, raised, returned) ==
    [op |-> op, run_id |-> run_id, raised |-> raised, returned |-> returned]

\* time passes between two readings of _now_iso
TimePasses ==
    /\ clock < MaxClock
    /\ clock' = clock + 1
    /\ UNCHANGED <<market_history, import_metadata, indexes_present, download_dir,
                   update_lock, progress, run_seq, proc, call>>

_start_progress ==
    /\ run_seq < MaxRuns
    /\ run_seq' = run_seq + 1
    /\ progress' = StartProgress(run_seq + 1, 1, clock)
    /\ call' = TrackerCall("_start_progress", Some(run_seq + 1), FALSE, None)
    /\ UNCHANGED <<market_history, import_metadata, indexes_present, download_dir,
                   update_lock, clock, proc>>

_set_progress(run_id, changes) ==
    /\ progress' = SetProgress(progress, run_id, changes, clock)
    /\ call' = TrackerCall("_set_progress", run_id, FALSE, None)
    /\ UNCHANGED <<market_history, import_metadata, indexes_present, download_dir,
                   update_lock, clock, run_seq, proc>>

_finalize_progress(run_id, status) ==
    /\ progress' = FinalizeProgress(progress, run_id, status, status, clock)
    /\ call' = TrackerCall("_finalize_progress", run_id, FALSE, None)
    /\ UNCHANGED <<market_history, import_metadata, indexes_present, download_dir,
                   update_lock, clock, run_seq, proc>>

\* (mutant) the Run is reset whatever its status
clear_while_running ==
    /\ progress' = [EmptyProgressState EXCEPT !.updated_at = Some(clock)]
    /\ call' = TrackerCall("clear_update_progress", None, FALSE,
                           Some(ProgressSnapshot(progress', clock)))
    /\ UNCHANGED <<market_history, import_metadata, indexes_present, download_dir,
                   update_lock, clock, run_seq, proc>>

clear_update_progress ==
    /\ IF progress.status = "running"
       THEN /\ progress' = progress
            /\ call' = TrackerCall("clear_update_progress", None, TRUE, None)
       ELSE /\ progress' = [EmptyProgressState EXCEPT !.updated_at = Some(clock)]
            /\ call' = TrackerCall("clear_update_progress", None, FALSE,
                                   Some(ProgressSnapshot(progress', clock)))
    /\ UNCHANGED <<market_history, import_metadata, indexes_present, download_dir,
                   update_lock, clock, run_seq, proc>>

get_update_progress ==
    /\ call' = TrackerCall("get_update_progress", None, FALSE,
                           Some(ProgressSnapshot(progress, clock)))
    /\ UNCHANGED <<market_history, import_metadata, indexes_present, download_dir,
                   update_lock, progress, clock, run_seq, proc>>

InitTracker ==
    /\ market_history = {}
    /\ import_metadata = {}
    /\ indexes_present = TRUE
    /\ download_dir = {}
    /\ update_lock = None
    /\ progress = EmptyProgressState
    /\ clock = 0
    /\ run_seq = 0
    /\ proc = <<>>
    /\ call = TrackerCall("none", None, FALSE, None)

NextTracker ==
    \/ TimePasses
    \/ _start_progress
    \/ \E run_id \in RunIdArgs, changes \in TrackerChanges : _set_progress(run_id, changes)
    \/ \E run_id \in RunIdArgs \ {None}, status \in TerminalStatuses :
          _finalize_progress(run_id, status)
    \/ clear_update_progress
    \/ get_update_progress

SpecTracker == InitTracker /\ [][NextTracker]_vars

\* ------------------------------------------------------- update pipeline

MaxDumps == 3      \* snapshots handed to one _process_dumps call

\* the threads calling the public surface
Procs == {1, 2}

DOWNLOAD_PROGRESS_START == 15
DOWNLOAD_PROGRESS_END == 45
IMPORT_PROGRESS_START == 45
IMPORT_PROGRESS_END == 90

\* the default of parallel_downloads; MarketService passes only max_dumps
DefaultParallelDownloads == 3

\* locals of a caller that is not inside update() / start_background_update();
\* dropped, recreated and reset_seen record what happened during the caller's run,
\* no_section the snapshot last decoded in it if its archive had no market_history
\* COPY block or INSERT statement
ReadyProc ==
    [pc |-> "ready", mode |-> "none", run_id |-> None,
     max_dumps |-> 1, cleanup_after_import |-> TRUE, use_bulk_loading |-> TRUE,
     parallel_downloads |-> DefaultParallelDownloads,
     available |-> <<>>, imported_seen |-> {}, to_process |-> <<>>,
     dl |-> <<>>, download_progress |-> <<>>, callbacks |-> <<>>, index |-> 0,
     current_max_timestamp |-> None, staged |-> <<>>, count |-> 0,
     downloaded |-> <<>>, imported |-> <<>>, errors |-> <<>>, cleaned_up |-> <<>>,
     total_records |-> 0, exc |-> None, result |-> None,
     dropped |-> FALSE, recreated |-> FALSE, reset_seen |-> FALSE, no_section |-> None]

\* UpdateResult built at the end of _process_dumps
UpdateResult(l) ==
    [success |-> l.errors = <<>>, downloaded |-> l.downloaded, imported |-> l.imported,
     errors |-> l.errors, total_records |-> l.total_records,
     cleaned_up |-> IF l.cleaned_up = <<>> THEN None ELSE Some(l.cleaned_up)]

\* "Failed to download <name>" / "Import failed for <name>": a message naming a snapshot
ErrorMessage(name, kind) == [dump |-> Some(name), kind |-> kind]

\* str(e) of an exception that ended the whole run: it names no snapshot
RunError(kind) == [dump |-> None, kind |-> kind]

\* (mutant) acquire reports success whoever holds the lock
LockAlwaysFree(lock) == TRUE

\* threading.Lock.acquire(blocking=False) succeeds
LockFree(lock) == lock = None

\* _set_progress(run_id=run_id, ...) by the run of caller p
Report(p, changes) == progress' = SetProgress(progress, proc[p].run_id, changes, clock)

SetProc(p, l) == proc' = [proc EXCEPT ![p] = l]

ApiCall(op, p, started, raised, out) ==
    [op |-> op, caller |-> p, started |-> started, raised |-> raised, out |-> out]

\* the latest step returned nothing to a caller
NoResponse == ApiCall("none", 0, FALSE, FALSE, None)

\* start_background_update up to its lock attempt
start_background_update(p, max_dumps, cleanup_after_import, use_bulk_loading) ==
    /\ proc[p].pc = "ready"
    /\ run_seq < MaxRuns
    /\ IF LockFree(update_lock)
       THEN /\ update_lock' = Some(p)
            /\ SetProc(p, [ReadyProc EXCEPT !.pc = "locked", !.mode = "background",
                              !.max_dumps = max_dumps,
                              !.cleanup_after_import = cleanup_after_import,
                              !.use_bulk_loading = use_bulk_loading])
       ELSE /\ SetProc(p, [ReadyProc EXCEPT !.pc = "refused"])
            /\ UNCHANGED update_lock
    /\ UNCHANGED <<market_history, import_metadata, indexes_present, download_dir,
                   progress, clock, run_seq>>
    /\ call' = NoResponse

\* return {"started": False, "progress": self.get_update_progress()}
return_not_started(p) ==
    /\ proc[p].pc = "refused"
    /\ SetProc(p, ReadyProc)
    /\ call' = ApiCall("start_background_update", p, FALSE, FALSE,
                       ProgressSnapshot(progress, clock))
    /\ UNCHANGED <<market_history, import_metadata, indexes_present, download_dir,
                   update_lock, progress, clock, run_seq>>

\* update() up to its lock attempt; a held lock raises RuntimeError
update(p, max_dumps, cleanup_after_import, use_bulk_loading) ==
    /\ proc[p].pc = "ready"
    /\ run_seq < MaxRuns
    /\ IF LockFree(update_lock)
       THEN /\ update_lock' = Some(p)
            /\ SetProc(p, [ReadyProc EXCEPT !.pc = "locked", !.mode = "inline",
                              !.max_dumps = max_dumps,
                              !.cleanup_after_import = cleanup_after_import,
                              !.use_bulk_loading = use_bulk_loading])
            /\ call' = NoResponse
       ELSE /\ call' = ApiCall("update", p, FALSE, TRUE, None)
            /\ UNCHANGED <<update_lock, proc>>
    /\ UNCHANGED <<market_history, import_metadata, indexes_present, download_dir,
                   progress, clock, run_seq>>

\* run_id = uuid.uuid4().hex; self._start_progress(run_id, max_dumps=max_dumps)
start_run(p) ==
    /\ proc[p].pc = "locked"
    /\ run_seq' = run_seq + 1
    /\ progress' = StartProgress(run_seq + 1, proc[p].max_dumps, clock)
    /\ SetProc(p, [proc[p] EXCEPT !.pc = "pipeline", !.run_id = Some(run_seq + 1)])
    /\ UNCHANGED <<market_history, import_metadata, indexes_present, download_dir,
                   update_lock, clock>>
    /\ call' = NoResponse

\* _run_update_pipeline: the first report, then the listing is awaited
fetch_index(p) ==
    /\ proc[p].pc = "pipeline"
    /\ Report(p, [stage |-> Some("fetching_index"), message |-> Some("Fetching dump index"),
                  progress_pct |-> Some(Pct(3))])
    /\ SetProc(p, [proc[p] EXCEPT !.pc = "listing"])
    /\ UNCHANGED <<market_history, import_metadata, indexes_present, download_dir,
                   update_lock, clock, run_seq>>
    /\ call' = NoResponse

\* the snapshots a remote index can list
OlderDump == DumpInfo(DumpName(Some(0), None), 0)
NewerDump == DumpInfo(DumpName(Some(1), Some(0)), 1)
RemoteListings == {<<>>, <<OlderDump, NewerDump>>}

\* list_available_dumps returns, or raises on a failed fetch
list_available_dumps(p) ==
    /\ proc[p].pc = "listing"
    /\ \/ \E listing \in RemoteListings :
            /\ Report(p, [stage |-> Some("planning"), message |-> Some("Found available dumps"),
                          progress_pct |-> Some(Pct(7))])
            /\ SetProc(p, [proc[p] EXCEPT !.pc = "select", !.available = listing])
       \/ /\ SetProc(p, [proc[p] EXCEPT !.pc = "failed", !.exc = Some("index fetch failed")])
          /\ UNCHANGED progress
    /\ UNCHANGED <<market_history, import_metadata, indexes_present, download_dir,
                   update_lock, clock, run_seq>>
    /\ call' = NoResponse

\* get_recommended_dumps, first read: imported = set(self.db.get_imported_dumps())
select_read_imported(p) ==
    /\ proc[p].pc = "select"
    /\ SetProc(p, [proc[p] EXCEPT !.pc = "select_pick",
                                  !.imported_seen = GetImportedDumps(import_metadata)])
    /\ UNCHANGED <<market_history, import_metadata, indexes_present, download_dir,
                   update_lock, progress, clock, run_seq>>
    /\ call' = NoResponse

\* get_recommended_dumps, second read and the pick; then the "Selected" report
select_pick(p) ==
    /\ proc[p].pc = "select_pick"
    /\ LET to_process == RecommendFrom(proc[p].available, proc[p].max_dumps,
                                       proc[p].imported_seen, market_history)
       IN  /\ Report(p, [stage |-> Some("planning"), message |-> Some("Selected dumps"),
                         total_dumps |-> Some(Len(to_process)),
                         progress_pct |-> Some(Pct(9))])
           /\ SetProc(p, [proc[p] EXCEPT !.pc = "process", !.to_process = to_process])
    /\ UNCHANGED <<market_history, import_metadata, indexes_present, download_dir,
                   update_lock, clock, run_seq>>
    /\ call' = NoResponse

\* --------------------------------------------------------- _process_dumps

RECURSIVE SumSeq(_)
SumSeq(s) == IF s = <<>> THEN 0 ELSE Head(s) + SumSeq(Tail(s))

\* total_download_bytes = sum(max(0, dump.size_bytes) for dump in dumps_to_process)
TotalDownloadBytes(dumps) == SumSeq([i \in 1..Len(dumps) |-> Max2(0, dumps[i].size_bytes)])

\* progress_pct computed by on_download
DownloadPct(downloaded_total, total_download_bytes) ==
    IF total_download_bytes > 0
    THEN Pct(DOWNLOAD_PROGRESS_START)
            + (Pct(DOWNLOAD_PROGRESS_END - DOWNLOAD_PROGRESS_START)
                 * Min2(total_download_bytes, downloaded_total)) \div total_download_bytes
    ELSE Pct(DOWNLOAD_PROGRESS_START)

\* per_dump_span and dump_start_pct of the import loop (index counted from 1 here)
PerDumpSpan(total_dumps) ==
    Pct(IMPORT_PROGRESS_END - IMPORT_PROGRESS_START) \div Max2(1, total_dumps)
DumpStartPct(index, total_dumps) ==
    Pct(IMPORT_PROGRESS_START) + (index - 1) * PerDumpSpan(total_dumps)

\* files of download_dir
FileState(dir, name) ==
    IF \E f \in dir : f.name = name THEN Some((CHOOSE f \in dir : f.name = name).state)
    ELSE None
WriteFile(dir, name, state) ==
    {f \in dir : f.name # name} \cup {[name |-> name, state |-> state]}
RemoveFile(dir, name) == {f \in dir : f.name # name}

DownloadSettled == {"ok", "failed"}
DownloadActive == {"cached", "requested", "open"}

\* (mutant) the import loop starts as soon as one download has settled
AnyDownloadSettled(dl) == \E i \in 1..Len(dl) : dl[i] \in DownloadSettled

\* await asyncio.gather(*download_tasks) returns
AllDownloadsSettled(dl) == \A i \in 1..Len(dl) : dl[i] \in DownloadSettled

\* (mutant) create_indexes moved out of the finally block
RecreatesOnNormalExitOnly(use_bulk_loading, exc) == use_bulk_loading /\ exc = None

\* finally: if use_bulk_loading: ... self.db.create_indexes()
RecreatesIndexes(use_bulk_loading, exc) == use_bulk_loading

\* _process_dumps up to the try block: the empty-list return, or the "processing" report
process_dumps(p) ==
    /\ proc[p].pc = "process"
    /\ LET l == proc[p]
           n == Len(l.to_process)
       IN  IF n = 0
           THEN /\ Report(p, [stage |-> Some("planning"),
                              message |-> Some("No new dumps to import"),
                              total_dumps |-> Some(0), completed_dumps |-> Some(0),
                              progress_pct |-> Some(Pct(100))])
                /\ SetProc(p, [l EXCEPT !.pc = "returned", !.result = Some(UpdateResult(l))])
           ELSE /\ Report(p, [stage |-> Some("processing"),
                              message |-> Some("Processing dumps"),
                              total_dumps |-> Some(n), completed_dumps |-> Some(0),
                              progress_pct |-> Some(Pct(10))])
                /\ SetProc(p, [l EXCEPT !.pc = IF l.use_bulk_loading THEN "drop_indexes"
                                                ELSE "downloading",
                                        !.dl = [i \in 1..n |-> "pending"],
                                        !.download_progress = [i \in 1..n |-> 0],
                                        !.callbacks = [i \in 1..n |-> <<>>]])
    /\ UNCHANGED <<market_history, import_metadata, indexes_present, download_dir,
                   update_lock, clock, run_seq>>
    /\ call' = NoResponse

\* the "dropping_indexes" report and db.drop_indexes(); a failing DROP is logged and
\* swallowed there, and the run goes on as modelled here
drop_indexes(p) ==
    /\ proc[p].pc = "drop_indexes"
    /\ Report(p, [stage |-> Some("dropping_indexes"), message |-> Some("Dropping indexes"),
                  progress_pct |-> Some(Pct(12))])
    /\ indexes_present' = FALSE
    /\ SetProc(p, [proc[p] EXCEPT !.pc = "downloading", !.dropped = TRUE])
    /\ UNCHANGED <<market_history, import_metadata, download_dir,
                   update_lock, clock, run_seq>>
    /\ call' = NoResponse

\* (mutant) a slot of the semaphore is never given back: every download that has
\* started counts against the limit
StartedDownloads(l) == Cardinality({j \in 1..Len(l.dl) : l.dl[j] # "pending"})

ActiveDownloads(l) == Cardinality({j \in 1..Len(l.dl) : l.dl[j] \in DownloadActive})

\* the event loop runs every task up to its first suspension before it polls the
\* network: the first parallel_downloads tasks have passed the semaphore
FirstPassDone(l) ==
    /\ \A j \in 1..Min2(Len(l.dl), l.parallel_downloads) : l.dl[j] # "pending"
    /\ \A j \in 1..Len(l.dl) : l.dl[j] # "cached"

DownloadReport(p, name, downloaded_total, total_download_bytes, pct) ==
    Report(p, [stage |-> Some("downloading"), message |-> Some("Downloading"),
               current_dump |-> Some(name),
               downloaded_bytes |-> downloaded_total,
               download_total_bytes |-> Some(total_download_bytes),
               progress_pct |-> Some(pct)])

\* (mutant) the download starts without waiting for a slot of the semaphore
download_without_semaphore(p, i) ==
    /\ proc[p].pc = "downloading"
    /\ i \in 1..Len(proc[p].dl)
    /\ LET l == proc[p]
           dump == l.to_process[i]
       IN  /\ l.dl[i] = "pending"
           /\ \A j \in 1..(i - 1) : l.dl[j] # "pending"
           /\ \A j \in 1..Len(l.dl) : l.dl[j] # "cached"
           /\ DownloadReport(p, dump.name, None, TotalDownloadBytes(l.to_process),
                             Pct(DOWNLOAD_PROGRESS_START))
           /\ SetProc(p, [l EXCEPT !.dl[i] = IF FileState(download_dir, dump.name) # None
                                              THEN "cached" ELSE "requested"])
    /\ UNCHANGED <<market_history, import_metadata, indexes_present, download_dir,
                   update_lock, clock, run_seq>>
    /\ call' = NoResponse

\* download_with_semaphore passes the semaphore (waiters are woken in order), reports
\* "downloading" and enters download_dump, where an existing file counts as cached
download_with_semaphore(p, i) ==
    /\ proc[p].pc = "downloading"
    /\ i \in 1..Len(proc[p].dl)
    /\ LET l == proc[p]
           dump == l.to_process[i]
       IN  /\ l.dl[i] = "pending"
           /\ \A j \in 1..(i - 1) : l.dl[j] # "pending"
           /\ \A j \in 1..Len(l.dl) : l.dl[j] # "cached"
           /\ ActiveDownloads(l) < l.parallel_downloads
           /\ DownloadReport(p, dump.name, None, TotalDownloadBytes(l.to_process),
                             Pct(DOWNLOAD_PROGRESS_START))
           /\ SetProc(p, [l EXCEPT !.dl[i] = IF FileState(download_dir, dump.name) # None
                                              THEN "cached" ELSE "requested"])
    /\ UNCHANGED <<market_history, import_metadata, indexes_present, download_dir,
                   update_lock, clock, run_seq>>
    /\ call' = NoResponse

\* on_download(downloaded, content_length) and, when final, the task's return;
\* `callbacks` keeps the arguments of every call of the progress callback
OnDownload(p, i, downloaded, content_length, status) ==
    LET l == proc[p]
        dump == l.to_process[i]
        dump_size == IF content_length # None /\ Val(content_length) > 0
                     THEN Val(content_length) ELSE dump.size_bytes
        download_progress == [l.download_progress EXCEPT
                                 ![i] = Min2(downloaded, Max2(0, dump_size))]
        total == TotalDownloadBytes(l.to_process)
    IN  /\ DownloadReport(p, dump.name, Some(SumSeq(download_progress)), total,
                          DownloadPct(SumSeq(download_progress), total))
        /\ SetProc(p, [l EXCEPT !.download_progress = download_progress,
                                !.callbacks[i] = Append(@, <<downloaded, content_length>>),
                                !.dl[i] = status])

\* (mutant) the cached file is returned without a call of the progress callback
download_cached_silently(p, i) ==
    /\ proc[p].pc = "downloading"
    /\ i \in 1..Len(proc[p].dl)
    /\ proc[p].dl[i] = "cached"
    /\ SetProc(p, [proc[p] EXCEPT !.dl[i] = "ok"])
    /\ UNCHANGED <<market_history, import_metadata, indexes_present, download_dir,
                   update_lock, progress, clock, run_seq>>
    /\ call' = NoResponse

\* download_dump found the file: progress_callback(size, size); return target_path
download_cached(p, i) ==
    /\ proc[p].pc = "downloading"
    /\ i \in 1..Len(proc[p].dl)
    /\ proc[p].dl[i] = "cached"
    /\ OnDownload(p, i, proc[p].to_process[i].size_bytes,
                  Some(proc[p].to_process[i].size_bytes), "ok")
    /\ UNCHANGED <<market_history, import_metadata, indexes_present, download_dir,
                   update_lock, clock, run_seq>>
    /\ call' = NoResponse

\* the request fails before the file is opened: except Exception -> (dump, None, str(e))
download_refused(p, i) ==
    /\ proc[p].pc = "downloading"
    /\ i \in 1..Len(proc[p].dl)
    /\ proc[p].dl[i] = "requested"
    /\ FirstPassDone(proc[p])
    /\ SetProc(p, [proc[p] EXCEPT !.dl[i] = "failed"])
    /\ UNCHANGED <<market_history, import_metadata, indexes_present, download_dir,
                   update_lock, progress, clock, run_seq>>
    /\ call' = NoResponse

\* response.raise_for_status() passed: open(target_path, "wb"); the content-length
\* header, read here, is the size the listing gave
download_open(p, i) ==
    /\ proc[p].pc = "downloading"
    /\ i \in 1..Len(proc[p].dl)
    /\ proc[p].dl[i] = "requested"
    /\ FirstPassDone(proc[p])
    /\ download_dir' = WriteFile(download_dir, proc[p].to_process[i].name, "partial")
    /\ SetProc(p, [proc[p] EXCEPT !.dl[i] = "open"])
    /\ UNCHANGED <<market_history, import_metadata, indexes_present,
                   update_lock, progress, clock, run_seq>>
    /\ call' = NoResponse

\* the body arrives: f.write(chunk); progress_callback(downloaded, expected_size).
\* A file unlinked meanwhile stays unlinked.
download_chunks(p, i) ==
    /\ proc[p].pc = "downloading"
    /\ i \in 1..Len(proc[p].dl)
    /\ proc[p].dl[i] = "open"
    /\ FirstPassDone(proc[p])
    /\ LET name == proc[p].to_process[i].name
       IN  download_dir' = IF FileState(download_dir, name) # None
                           THEN WriteFile(download_dir, name, "complete")
                           ELSE download_dir
    /\ OnDownload(p, i, proc[p].to_process[i].size_bytes,
                  Some(proc[p].to_process[i].size_bytes), "ok")
    /\ UNCHANGED <<market_history, import_metadata, indexes_present,
                   update_lock, clock, run_seq>>
    /\ call' = NoResponse

\* the stream breaks after the file was opened: the partial file stays
download_broken(p, i) ==
    /\ proc[p].pc = "downloading"
    /\ i \in 1..Len(proc[p].dl)
    /\ proc[p].dl[i] = "open"
    /\ FirstPassDone(proc[p])
    /\ SetProc(p, [proc[p] EXCEPT !.dl[i] = "failed"])
    /\ UNCHANGED <<market_history, import_metadata, indexes_present, download_dir,
                   update_lock, progress, clock, run_seq>>
    /\ call' = NoResponse

\* gather returned: the "Download stage completed" report, then the import loop
downloads_gathered(p) ==
    /\ proc[p].pc = "downloading"
    /\ AllDownloadsSettled(proc[p].dl)
    /\ Report(p, [stage |-> Some("downloading"), message |-> Some("Download stage completed"),
                  downloaded_bytes |-> Some(SumSeq(proc[p].download_progress)),
                  download_total_bytes |-> Some(TotalDownloadBytes(proc[p].to_process)),
                  progress_pct |-> Some(Pct(DOWNLOAD_PROGRESS_END))])
    /\ SetProc(p, [proc[p] EXCEPT !.pc = "import_next", !.index = 1])
    /\ UNCHANGED <<market_history, import_metadata, indexes_present, download_dir,
                   update_lock, clock, run_seq>>
    /\ call' = NoResponse

\* ------------------------------------------------- the sequential import loop

\* what a downloaded archive can hold: the timestamps of its market_history rows, in
\* file order; <<>> is an archive with no market_history section, and one archive
\* carries the same key twice
ArchiveContents ==
    {<<>>, <<Tick(1, 0)>>, <<Tick(1, 0), Tick(3, 1)>>, <<Tick(3, 1), Tick(3, 1)>>}

ArchiveRow(ts) == HistoryRow(ts, Some(1), None, Some(1))

\* StreamingCSVWriter.write_record / the cutoff test of _import_from_sql_stream:
\* a row at or before min_timestamp_exclusive is skipped
RECURSIVE AfterCutoff(_, _)
AfterCutoff(content, cutoff) ==
    IF content = <<>> THEN <<>>
    ELSE (IF cutoff # None
             /\ Val(NormalizeTimestampForCompare(Some(Head(content)))) <= Val(cutoff)
          THEN <<>> ELSE <<ArchiveRow(Head(content))>>)
         \o AfterCutoff(Tail(content), cutoff)

\* HistoryDatabase.record_import: INSERT OR REPLACE INTO import_metadata
RecordImport(metadata, dump, record_count) ==
    {m \in metadata : m.dump_name # dump.name} \cup {MetadataRow(dump.name, record_count)}

\* (mutant) a snapshot that added no row is not recorded
SkipZeroImport(metadata, dump) == metadata

\* the else branch of _process_dumps: self.db.record_import(..., record_count=0, ...)
RecordZeroImport(metadata, dump) == RecordImport(metadata, dump, 0)

ImportPcs == {"import_next", "import_dump", "decode", "bulk_load", "legacy_insert",
              "record_import", "import_done"}

\* locals once the loop body for the current snapshot is over
NextIteration(l) ==
    [l EXCEPT !.pc = "import_next", !.index = @ + 1, !.current_max_timestamp = None,
              !.staged = <<>>, !.count = 0]

\* (mutant) a failed download ends the loop
StopAtFailedDownload(l, errors) == [l EXCEPT !.errors = errors, !.pc = "recreate"]

\* if error: errors.append("<name>: Download failed - ..."); ...; continue
SkipFailedDownload(l, errors) == NextIteration([l EXCEPT !.errors = errors])

\* (mutant) an exception of import_dump is not caught in the loop: it ends the run
ImportFailureEscapes(p, reported, seen) ==
    /\ progress' = reported
    /\ SetProc(p, [proc[p] EXCEPT !.exc = Some("Import failed"), !.pc = "recreate",
                                  !.no_section = seen])

\* except Exception as e: errors.append("<name>: Import failed - ..."), then the report;
\* `reported` is the Run after the reports the import made before it raised
ImportFailedWith(p, reported, seen) ==
    LET l == proc[p]
        errors == Append(l.errors, ErrorMessage(l.to_process[l.index].name, "Import failed"))
    IN  /\ progress' = SetProgress(reported, l.run_id,
                                   [errors |-> Some(errors), message |-> Some("Import failed")],
                                   clock)
        /\ SetProc(p, NextIteration([l EXCEPT !.errors = errors, !.no_section = seen]))

ImportFailed(p, reported) == ImportFailedWith(p, reported, proc[p].no_section)

\* the head of the for loop: leave it, record a failed download, or announce the import
import_next(p) ==
    /\ proc[p].pc = "import_next"
    /\ LET l == proc[p]
           n == Len(l.to_process)
       IN  IF l.index > n
           THEN /\ SetProc(p, [l EXCEPT !.pc = "recreate"])
                /\ UNCHANGED progress
           ELSE IF l.dl[l.index] = "failed"
           THEN LET errors == Append(l.errors, ErrorMessage(l.to_process[l.index].name,
                                                            "Download failed"))
                IN  /\ Report(p, [errors |-> Some(errors),
                                  message |-> Some("Download failed")])
                    /\ SetProc(p, SkipFailedDownload(l, errors))
           ELSE /\ Report(p, [stage |-> Some("importing"), message |-> Some("Importing"),
                              current_dump |-> Some(l.to_process[l.index].name),
                              progress_pct |-> Some(DumpStartPct(l.index, n)
                                                    + PerDumpSpan(n) \div 10)])
                /\ SetProc(p, [l EXCEPT !.pc = "import_dump",
                                        !.downloaded = Append(@, l.to_process[l.index].name)])
    /\ UNCHANGED <<market_history, import_metadata, indexes_present, download_dir,
                   update_lock, clock, run_seq>>
    /\ call' = NoResponse

\* (mutant) import_dump trusts the selection and decodes without looking at the store
import_dump_without_recheck(p) ==
    /\ proc[p].pc = "import_dump"
    /\ SetProc(p, [proc[p] EXCEPT !.pc = "decode",
                                  !.current_max_timestamp =
                                      GetCurrentMaxTimestamp(market_history)])
    /\ UNCHANGED <<market_history, import_metadata, indexes_present, download_dir,
                   update_lock, progress, clock, run_seq>>
    /\ call' = NoResponse

\* import_dump: current_max_timestamp is read; a fully covered snapshot returns 0
import_dump(p) ==
    /\ proc[p].pc = "import_dump"
    /\ LET l == proc[p]
           current_max_timestamp == GetCurrentMaxTimestamp(market_history)
       IN  IF IsDumpFullyCovered(l.to_process[l.index], current_max_timestamp)
           THEN SetProc(p, [l EXCEPT !.pc = "import_done", !.count = 0])
           ELSE SetProc(p, [l EXCEPT !.pc = "decode",
                                     !.current_max_timestamp = current_max_timestamp])
    /\ UNCHANGED <<market_history, import_metadata, indexes_present, download_dir,
                   update_lock, progress, clock, run_seq>>
    /\ call' = NoResponse

\* the archive is read and its rows filtered by the cutoff. A missing or truncated
\* file raises; the bulk path reports "parsing" and returns 0 when nothing is left,
\* the legacy path raises when no market_history section was found.
decode(p) ==
    /\ proc[p].pc = "decode"
    /\ LET l == proc[p]
           n == Len(l.to_process)
       IN  IF FileState(download_dir, l.to_process[l.index].name) # Some("complete")
           THEN ImportFailed(p, progress)
           ELSE \E content \in ArchiveContents :
                  LET kept == AfterCutoff(content, l.current_max_timestamp)
                      parsing ==
                          [stage |-> Some("importing"), message |-> Some("Parsing"),
                           current_dump |-> Some(l.to_process[l.index].name),
                           records_parsed |-> Some(Len(kept)),
                           records_skipped_existing |-> Some(Len(content) - Len(kept)),
                           progress_pct |->
                               Some(DumpStartPct(l.index, n)
                                    + Min2((PerDumpSpan(n) * 8) \div 10,
                                           (PerDumpSpan(n) * Len(kept)) \div 2000000))]
                      seen == IF content = <<>> THEN Some(l.to_process[l.index].name)
                              ELSE None
                  IN  IF l.use_bulk_loading
                      THEN /\ Report(p, parsing)
                           /\ SetProc(p, IF kept = <<>>
                                         THEN [l EXCEPT !.pc = "import_done", !.count = 0,
                                                        !.no_section = seen]
                                         ELSE [l EXCEPT !.pc = "bulk_load", !.staged = kept,
                                                        !.no_section = seen])
                      ELSE IF content = <<>>
                           THEN ImportFailedWith(p, progress, seen)
                           ELSE /\ SetProc(p, [l EXCEPT !.pc = "legacy_insert",
                                                        !.staged = kept,
                                                        !.no_section = seen])
                                /\ UNCHANGED progress
    /\ UNCHANGED <<market_history, import_metadata, indexes_present, download_dir,
                   update_lock, clock, run_seq>>
    /\ call' = NoResponse

\* the "bulk_loading" report, then db.bulk_insert_from_csv(csv_path)
bulk_load(p) ==
    /\ proc[p].pc = "bulk_load"
    /\ LET l == proc[p]
           n == Len(l.to_process)
           reported ==
               SetProgress(progress, l.run_id,
                           [stage |-> Some("importing"), message |-> Some("Bulk loading"),
                            current_dump |-> Some(l.to_process[l.index].name),
                            progress_pct |-> Some(DumpStartPct(l.index, n)
                                                  + (PerDumpSpan(n) * 9) \div 10)], clock)
       IN  \E outcome \in BulkInsertOutcomes(market_history, l.staged) :
              IF outcome[3]
              THEN /\ ImportFailed(p, reported)
                   /\ UNCHANGED market_history
              ELSE /\ market_history' = outcome[1]
                   /\ progress' = reported
                   /\ SetProc(p, [l EXCEPT !.pc = IF outcome[2] = 0 THEN "import_done"
                                                   ELSE "record_import",
                                           !.count = outcome[2], !.staged = <<>>])
    /\ UNCHANGED <<import_metadata, indexes_present, download_dir,
                   update_lock, clock, run_seq>>
    /\ call' = NoResponse

\* the legacy path: db.insert_records(batch) with the rows kept
legacy_insert(p) ==
    /\ proc[p].pc = "legacy_insert"
    /\ LET l == proc[p]
           outcome == InsertRecordsOutcome(market_history, l.staged)
       IN  /\ market_history' = outcome[1]
           /\ SetProc(p, [l EXCEPT !.pc = IF outcome[2] = 0 THEN "import_done"
                                           ELSE "record_import",
                                   !.count = outcome[2], !.staged = <<>>])
    /\ UNCHANGED <<import_metadata, indexes_present, download_dir,
                   update_lock, progress, clock, run_seq>>
    /\ call' = NoResponse

\* import_dump with count > 0: db.record_import(...), then the "imported" event
record_import(p) ==
    /\ proc[p].pc = "record_import"
    /\ LET l == proc[p]
       IN  /\ import_metadata' = RecordImport(import_metadata, l.to_process[l.index], l.count)
           /\ Report(p, [stage |-> Some("importing"), message |-> Some("Imported records"),
                         current_dump |-> Some(l.to_process[l.index].name)])
           /\ SetProc(p, [l EXCEPT !.pc = "import_done"])
    /\ UNCHANGED <<market_history, indexes_present, download_dir,
                   update_lock, clock, run_seq>>
    /\ call' = NoResponse

\* (mutant) a snapshot that added no row is recorded but not appended to imported
import_done_counting_new_rows(p) ==
    /\ proc[p].pc = "import_done"
    /\ LET l == proc[p]
           n == Len(l.to_process)
           dump == l.to_process[l.index]
           imported == IF l.count > 0 THEN Append(l.imported, dump.name) ELSE l.imported
           total_records == l.total_records + l.count
           removes == l.cleanup_after_import /\ FileState(download_dir, dump.name) # None
       IN  /\ import_metadata' = IF l.count > 0 THEN import_metadata
                                 ELSE RecordZeroImport(import_metadata, dump)
           /\ download_dir' = IF removes THEN RemoveFile(download_dir, dump.name)
                              ELSE download_dir
           /\ Report(p, [stage |-> Some("importing"), message |-> Some("Imported dumps"),
                         completed_dumps |-> Some(Len(imported)),
                         records_imported |-> Some(total_records),
                         progress_pct |->
                             Some(Pct(IMPORT_PROGRESS_START)
                                  + (Pct(IMPORT_PROGRESS_END - IMPORT_PROGRESS_START)
                                       * Len(imported)) \div Max2(1, n))])
           /\ SetProc(p, NextIteration(
                  [l EXCEPT !.imported = imported, !.total_records = total_records,
                            !.cleaned_up = IF removes /\ l.count > 0
                                           THEN Append(@, dump.name) ELSE @]))
    /\ UNCHANGED <<market_history, indexes_present, update_lock, clock, run_seq>>
    /\ call' = NoResponse

\* import_dump returned count: imported.append, the zero-record row when count is 0,
\* cleanup_dump, and the "Imported k/n" report
import_done(p) ==
    /\ proc[p].pc = "import_done"
    /\ LET l == proc[p]
           n == Len(l.to_process)
           dump == l.to_process[l.index]
           imported == Append(l.imported, dump.name)
           total_records == l.total_records + l.count
           removes == l.cleanup_after_import /\ FileState(download_dir, dump.name) # None
       IN  /\ import_metadata' = IF l.count > 0 THEN import_metadata
                                 ELSE RecordZeroImport(import_metadata, dump)
           /\ download_dir' = IF removes THEN RemoveFile(download_dir, dump.name)
                              ELSE download_dir
           /\ Report(p, [stage |-> Some("importing"), message |-> Some("Imported dumps"),
                         completed_dumps |-> Some(Len(imported)),
                         records_imported |-> Some(total_records),
                         progress_pct |->
                             Some(Pct(IMPORT_PROGRESS_START)
                                  + (Pct(IMPORT_PROGRESS_END - IMPORT_PROGRESS_START)
                                       * Len(imported)) \div Max2(1, n))])
           /\ SetProc(p, NextIteration(
                  [l EXCEPT !.imported = imported, !.total_records = total_records,
                            !.cleaned_up = IF removes THEN Append(@, dump.name) ELSE @]))
    /\ UNCHANGED <<market_history, indexes_present, update_lock, clock, run_seq>>
    /\ call' = NoResponse

\* the finally block of _process_dumps, then the return or the pending exception
recreate_indexes(p) ==
    /\ proc[p].pc = "recreate"
    /\ LET l == proc[p]
           recreates == RecreatesIndexes(l.use_bulk_loading, l.exc)
       IN  \E raised \in (IF recreates THEN BOOLEAN ELSE {FALSE}) :
              LET exc == IF raised THEN Some("create_indexes failed") ELSE l.exc
              IN  /\ IF recreates
                     THEN Report(p, [stage |-> Some("recreating_indexes"),
                                     message |-> Some("Recreating indexes"),
                                     progress_pct |-> Some(Pct(95))])
                     ELSE UNCHANGED progress
                  /\ indexes_present' = IF recreates /\ ~raised THEN TRUE
                                        ELSE indexes_present
                  /\ SetProc(p, [l EXCEPT
                        !.recreated = recreates,
                        !.exc = exc,
                        !.result = IF exc = None THEN Some(UpdateResult(l)) ELSE None,
                        !.pc = IF exc = None THEN "returned"
                               ELSE IF exc = Some("CancelledError") THEN "release"
                               ELSE "failed"])
    /\ UNCHANGED <<market_history, import_metadata, download_dir,
                   update_lock, clock, run_seq>>
    /\ call' = NoResponse

\* ------------------------------------- the end of update() and of the worker

\* self._set_progress(run_id=run_id, result=result.to_dict())
report_result(p) ==
    /\ proc[p].pc = "returned"
    /\ Report(p, [result |-> proc[p].result])
    /\ SetProc(p, [proc[p] EXCEPT !.pc = "finalize_completed"])
    /\ UNCHANGED <<market_history, import_metadata, indexes_present, download_dir,
                   update_lock, clock, run_seq>>
    /\ call' = NoResponse

finalize_completed(p) ==
    /\ proc[p].pc = "finalize_completed"
    /\ progress' = FinalizeProgress(progress, proc[p].run_id, "completed",
                                    "Database update completed successfully", clock)
    /\ SetProc(p, [proc[p] EXCEPT !.pc = "release"])
    /\ UNCHANGED <<market_history, import_metadata, indexes_present, download_dir,
                   update_lock, clock, run_seq>>
    /\ call' = NoResponse

\* except Exception as exc: the errors and result report
report_failure(p) ==
    /\ proc[p].pc = "failed"
    /\ LET error_msg == RunError(Val(proc[p].exc))
       IN  Report(p, [errors |-> Some(<<error_msg>>),
                      result |-> Some([success |-> FALSE, errors |-> <<error_msg>>])])
    /\ SetProc(p, [proc[p] EXCEPT !.pc = "finalize_failed"])
    /\ UNCHANGED <<market_history, import_metadata, indexes_present, download_dir,
                   update_lock, clock, run_seq>>
    /\ call' = NoResponse

finalize_failed(p) ==
    /\ proc[p].pc = "finalize_failed"
    /\ progress' = FinalizeProgress(progress, proc[p].run_id, "failed",
                                    "Database update failed", clock)
    /\ SetProc(p, [proc[p] EXCEPT !.pc = "release"])
    /\ UNCHANGED <<market_history, import_metadata, indexes_present, download_dir,
                   update_lock, clock, run_seq>>
    /\ call' = NoResponse

\* (mutant) the lock is released on the normal path only, not in a finally block
release_unless_raised(p) ==
    /\ proc[p].pc = "release"
    /\ update_lock' = IF proc[p].exc = None THEN None ELSE update_lock
    /\ SetProc(p, ReadyProc)
    /\ call' = IF proc[p].mode = "inline"
               THEN ApiCall("update", p, TRUE, proc[p].exc # None, proc[p].result)
               ELSE NoResponse
    /\ UNCHANGED <<market_history, import_metadata, indexes_present, download_dir,
                   progress, clock, run_seq>>

\* finally: self._update_lock.release(); update() then returns the result or re-raises
release(p) ==
    /\ proc[p].pc = "release"
    /\ update_lock' = None
    /\ SetProc(p, ReadyProc)
    /\ call' = IF proc[p].mode = "inline"
               THEN ApiCall("update", p, TRUE, proc[p].exc # None, proc[p].result)
               ELSE NoResponse
    /\ UNCHANGED <<market_history, import_metadata, indexes_present, download_dir,
                   progress, clock, run_seq>>

\* the task awaiting update() is cancelled while update() is suspended on the network:
\* CancelledError is not an Exception, so only the finally blocks run
cancel(p) ==
    /\ proc[p].mode = "inline"
    /\ proc[p].pc \in {"listing", "downloading"}
    /\ SetProc(p, [proc[p] EXCEPT !.exc = Some("CancelledError"),
                                  !.pc = IF proc[p].pc = "listing" THEN "release"
                                         ELSE "recreate"])
    /\ UNCHANGED <<market_history, import_metadata, indexes_present, download_dir,
                   update_lock, progress, clock, run_seq>>
    /\ call' = NoResponse

\* ------------------------------------------------- MarketService.reset_db

\* hard_reset deletes every row of both tables, _cleanup_dump_files unlinks every file;
\* no lock is taken. Every run under way has seen a reset.
reset_db ==
    /\ market_history' = {}
    /\ import_metadata' = {}
    /\ download_dir' = {}
    /\ proc' = [q \in Procs |-> IF update_lock = Some(q)
                                 THEN [proc[q] EXCEPT !.reset_seen = TRUE] ELSE proc[q]]
    /\ call' = ApiCall("reset_db", 0, FALSE, FALSE, None)
    /\ UNCHANGED <<indexes_present, update_lock, progress, clock, run_seq>>

\* ------------------------------------------------------- the whole service

StartMaxDumps == {1}

Init ==
    /\ market_history = {}
    /\ import_metadata = {}
    /\ indexes_present = TRUE
    /\ download_dir = {}
    /\ update_lock = None
    /\ progress = EmptyProgressState
    /\ clock = 0
    /\ run_seq = 0
    /\ proc = [p \in Procs |-> ReadyProc]
    /\ call = NoResponse

ProcessDumpsNext(p) ==
    \/ process_dumps(p)
    \/ drop_indexes(p)
    \/ \E i \in 1..MaxDumps : download_with_semaphore(p, i)
    \/ \E i \in 1..MaxDumps : download_cached(p, i)
    \/ \E i \in 1..MaxDumps : download_refused(p, i)
    \/ \E i \in 1..MaxDumps : download_open(p, i)
    \/ \E i \in 1..MaxDumps : download_chunks(p, i)
    \/ \E i \in 1..MaxDumps : download_broken(p, i)
    \/ downloads_gathered(p)
    \/ import_next(p)
    \/ import_dump(p)
    \/ decode(p)
    \/ bulk_load(p)
    \/ legacy_insert(p)
    \/ record_import(p)
    \/ import_done(p)
    \/ recreate_indexes(p)

Next ==
    \/ \E p \in Procs, max_dumps \in StartMaxDumps, bulk \in BOOLEAN :
          \/ start_background_update(p, max_dumps, TRUE, bulk)
          \/ update(p, max_dumps, TRUE, bulk)
    \/ \E p \in Procs :
          \/ return_not_started(p)
          \/ start_run(p)
          \/ fetch_index(p)
          \/ list_available_dumps(p)
          \/ select_read_imported(p)
          \/ select_pick(p)
          \/ ProcessDumpsNext(p)
          \/ report_result(p)
          \/ finalize_completed(p)
          \/ report_failure(p)
          \/ finalize_failed(p)
          \/ release(p)
          \/ cancel(p)
    \/ reset_db
    \/ (progress.status # "running" /\ clear_update_progress)
    \/ TimePasses

Spec == Init /\ [][Next]_vars

\* ------------------------------------- _process_dumps alone, on any list

\* snapshot k of the pool covers day k - 1
PoolDump(k) == DumpInfo(DumpName(Some(k - 1), None), 0)

\* the lists handed to _process_dumps: oldest first or newest first, or the one
\* snapshot whose name carries a time of day
ProcessInputs ==
    {[i \in 1..n |-> PoolDump(i)] : n \in 0..MaxDumps}
        \cup {[i \in 1..n |-> PoolDump(n + 1 - i)] : n \in 0..MaxDumps}
        \cup {<<NewerDump>>}

ParallelDownloadsArgs == {1, 2}

\* download_dir before the call: empty, or the first snapshot left by an earlier run
InitialDirs ==
    {{}} \cup {{[name |-> PoolDump(1).name, state |-> st]} : st \in {"complete", "partial"}}

InitialStores == {{}, {ArchiveRow(Tick(1, 0))}}

\* the Run when _run_update_pipeline calls _process_dumps
SelectedProgress(n) ==
    [StartProgress(1, 1, 0) EXCEPT !.stage = "planning", !.message = "Selected dumps",
                                   !.total_dumps = n, !.progress_pct = Pct(9)]

InitProcess ==
    /\ market_history \in InitialStores
    /\ import_metadata = {}
    /\ indexes_present = TRUE
    /\ download_dir \in InitialDirs
    /\ update_lock = Some(1)
    /\ clock = 0
    /\ run_seq = 1
    /\ call = NoResponse
    /\ \E dumps \in ProcessInputs, parallel \in ParallelDownloadsArgs,
          cleanup \in BOOLEAN, bulk \in BOOLEAN :
          /\ progress = SelectedProgress(Len(dumps))
          /\ proc = [p \in Procs |->
                       IF p = 1
                       THEN [ReadyProc EXCEPT !.pc = "process", !.mode = "background",
                                              !.run_id = Some(1), !.to_process = dumps,
                                              !.parallel_downloads = parallel,
                                              !.cleanup_after_import = cleanup,
                                              !.use_bulk_loading = bulk]
                       ELSE ReadyProc]

NextProcess == \E p \in Procs : ProcessDumpsNext(p)

SpecProcess == InitProcess /\ [][NextProcess]_vars

\* ------------------------------- one background run to its end, fairly scheduled
\* The worker thread of start_background_update from its call of _process_dumps to
\* the release of the lock. asyncio runs every task that is ready and each awaited
\* download ends, so a step that stays possible is eventually taken.

InitWorker ==
    /\ market_history = {}
    /\ import_metadata = {}
    /\ indexes_present = TRUE
    /\ download_dir \in InitialDirs
    /\ update_lock = Some(1)
    /\ clock = 0
    /\ run_seq = 1
    /\ call = NoResponse
    /\ \E n \in 0..MaxDumps, parallel \in ParallelDownloadsArgs, bulk \in BOOLEAN :
          /\ progress = SelectedProgress(n)
          /\ proc = [p \in Procs |->
                       IF p = 1
                       THEN [ReadyProc EXCEPT !.pc = "process", !.mode = "background",
                                              !.run_id = Some(1),
                                              !.to_process = [i \in 1..n |-> PoolDump(i)],
                                              !.parallel_downloads = parallel,
                                              !.use_bulk_loading = bulk]
                       ELSE ReadyProc]

NextWorker ==
    \E p \in Procs :
        \/ ProcessDumpsNext(p)
        \/ report_result(p)
        \/ finalize_completed(p)
        \/ report_failure(p)
        \/ finalize_failed(p)
        \/ release(p)

SpecWorker == InitWorker /\ [][NextWorker]_vars /\ WF_vars(NextWorker)

\* ------------------------------------------------- store write paths alone

StorePrices == {<<None, None>>, <<Some(1), None>>, <<Some(2), Some(1)>>}
StoreTimestamps == {0, 1}

InputRows ==
    {HistoryRow(ts, pv[1], pv[2], IF pv = <<None, None>> THEN None ELSE Some(1)) :
        ts \in StoreTimestamps, pv \in StorePrices}

Batches == UNION {[1..n -> InputRows] : n \in 0..MaxBatch}

NoCall == [op |-> "none", records |-> <<>>, result |-> 0, raised |-> FALSE, again |-> FALSE]

\* the call repeats the one before it: same operation, same rows, neither raised
Again(op, records, raised) ==
    call.op = op /\ call.records = records /\ ~call.raised /\ ~raised

bulk_insert_from_csv(csv) ==
    /\ \E out \in BulkInsertOutcomes(market_history, csv) :
          /\ market_history' = out[1]
          /\ call' = [op |-> "bulk_insert_from_csv", records |-> csv,
                      result |-> out[2], raised |-> out[3],
                      again |-> Again("bulk_insert_from_csv", csv, out[3])]
    /\ UNCHANGED <<import_metadata, indexes_present, download_dir, update_lock,
                   progress, clock, run_seq, proc>>

insert_records(records) ==
    /\ LET out == InsertRecordsOutcome(market_history, records)
       IN  /\ market_history' = out[1]
           /\ call' = [op |-> "insert_records", records |-> records,
                       result |-> out[2], raised |-> FALSE,
                       again |-> Again("insert_records", records, FALSE)]
    /\ UNCHANGED <<import_metadata, indexes_present, download_dir, update_lock,
                   progress, clock, run_seq, proc>>

\* HistoryDatabase.record_import(), called on the store by any caller
db_record_import(dump, record_count) ==
    /\ import_metadata' = RecordImport(import_metadata, dump, record_count)
    /\ call' = [op |-> "record_import", records |-> <<>>, result |-> 0,
                raised |-> FALSE, again |-> FALSE]
    /\ UNCHANGED <<market_history, indexes_present, download_dir, update_lock, progress,
                   clock, run_seq, proc>>

\* (mutant) the rows are counted once they are deleted
hard_reset_counting_late ==
    /\ market_history' = {}
    /\ import_metadata' = {}
    /\ call' = [op |-> "hard_reset", records |-> <<>>,
                removed |-> [removed_records |-> Cardinality(market_history'),
                            removed_imports |-> Cardinality(import_metadata')],
                raised |-> FALSE, again |-> FALSE]
    /\ UNCHANGED <<indexes_present, download_dir, update_lock, progress, clock, run_seq, proc>>

\* HistoryDatabase.hard_reset()
hard_reset ==
    /\ market_history' = {}
    /\ import_metadata' = {}
    /\ call' = [op |-> "hard_reset", records |-> <<>>,
                removed |-> [removed_records |-> Cardinality(market_history),
                            removed_imports |-> Cardinality(import_metadata)],
                raised |-> FALSE, again |-> FALSE]
    /\ UNCHANGED <<indexes_present, download_dir, update_lock, progress, clock, run_seq, proc>>

InitStore ==
    /\ market_history = {}
    /\ import_metadata = {}
    /\ indexes_present = TRUE
    /\ download_dir = {}
    /\ update_lock = None
    /\ progress = None
    /\ clock = 0
    /\ run_seq = 0
    /\ proc = <<>>
    /\ call = NoCall

NextStore ==
    \/ \E csv \in Batches : bulk_insert_from_csv(csv)
    \/ \E records \in Batches : insert_records(records)
    \/ hard_reset

SpecStore == InitStore /\ [][NextStore]_vars

\* ------------------------------------------- the store's bookkeeping calls
\* HistoryDatabase.get_status(), as far as record count and imported dumps go; the
\* dumps are listed by import date, which the rows modelled do not carry: a set
GetStatus(history, metadata) ==
    LET total == Cardinality(history)
    IN  IF total = 0
        THEN [initialized |-> TRUE, total_records |-> 0, imported_dumps |-> {}]
        ELSE [initialized |-> TRUE, total_records |-> total,
              imported_dumps |-> {m.dump_name : m \in metadata}]

get_status ==
    /\ call' = [op |-> "get_status", records |-> <<>>,
                status |-> GetStatus(market_history, import_metadata),
                raised |-> FALSE, again |-> FALSE]
    /\ UNCHANGED <<market_history, import_metadata, indexes_present, download_dir,
                   update_lock, progress, clock, run_seq, proc>>

\* rows are inserted one at a time; imports of two snapshots are recorded, with and
\* without rows
NextAdmin ==
    \/ \E row \in InputRows : insert_records(<<row>>)
    \/ \E i \in 1..2, record_count \in {0, 1} : db_record_import(PoolDump(i), record_count)
    \/ hard_reset
    \/ get_status

SpecAdmin == InitStore /\ [][NextAdmin]_vars

\* ------------------------------------------------- selection as a function

DumpNames ==
    {DumpName(Some(d), tod) : d \in Days, tod \in {None} \cup {Some(s) : s \in SecondsOfDay}}
        \cup {UndatedName}

ModifiedDates == {0, 1}
DumpInfos == {DumpInfo(n, m) : n \in DumpNames, m \in ModifiedDates}

\* listings: snapshots with pairwise different names
Listings ==
    {l \in UNION {[1..n -> DumpInfos] : n \in 0..MaxAvail} :
        \A i, j \in 1..Len(l) : i # j => l[i].name # l[j].name}

MaxDumpsArgs == {0, 1, 2}

InitSelect ==
    /\ \E l \in Listings :
          /\ call = [op |-> "none", available |-> l, max_dumps |-> 1, result |-> <<>>]
          /\ \E names \in SUBSET {l[i].name : i \in 1..Len(l)} :
                import_metadata = {MetadataRow(n, 1) : n \in names}
    /\ \E t \in {None} \cup {Some(x) : x \in Ticks} :
          market_history = IF t = None THEN {}
                           ELSE {HistoryRow(Val(t), Some(1), None, Some(1))}
    /\ indexes_present = TRUE
    /\ download_dir = {}
    /\ update_lock = None
    /\ progress = None
    /\ clock = 0
    /\ run_seq = 0
    /\ proc = <<>>

get_recommended_dumps(max_dumps) ==
    /\ call.op = "none"
    /\ call' = [op |-> "get_recommended_dumps", available |-> call.available,
                max_dumps |-> max_dumps,
                result |-> GetRecommendedDumps(call.available, max_dumps,
                                               import_metadata, market_history)]
    /\ UNCHANGED <<market_history, import_metadata, indexes_present, download_dir,
                   update_lock, progress, clock, run_seq, proc>>

NextSelect == \E max_dumps \in MaxDumpsArgs : get_recommended_dumps(max_dumps)

SpecSelect == InitSelect /\ [][NextSelect]_vars

\* ------------------------------------------- the cutoff filter of both paths
\* `proc` holds a StreamingCSVWriter and the batch list of _import_from_sql_stream,
\* fed the same records; `call` is the record fed last.

\* a parsed record, as far as the filter reads it
ParsedRecord(item_id, timestamp) == [item_id |-> item_id, timestamp |-> timestamp]

\* record timestamps around the cutoff Tick(1, 0): a second before, exactly at it, in
\* the same second with a fraction, a second later; absent; without a date
RecordTimestamps ==
    {None, Some(Unparsable), Some(Tick(0, 0)), Some(Tick(1, 0)), Some(Tick(1, 1)),
     Some(Tick(2, 0))}

ParsedRecords ==
    {ParsedRecord(item_id, ts) : item_id \in {None, Some("T4_BAG")}, ts \in RecordTimestamps}

\* min_timestamp_exclusive as import_dump passes it
CutoffArgs == {None, Some(Tick(1, 0)), Some(Unparsable)}

\* StreamingCSVWriter.__init__
NewWriter(min_timestamp_exclusive) ==
    [rows |-> <<>>, count |-> 0, skipped_existing |-> 0,
     date_start |-> None, date_end |-> None,
     min_timestamp_exclusive |-> NormalizeTimestampForCompare(min_timestamp_exclusive)]

\* (normalized or str(timestamp))[:10]: the date of the normal form, or the head of
\* the timestamp's own text when it has none; dates and texts compare as strings, and
\* the text without a date sorts before every date
DateValue(normalized, timestamp) ==
    IF normalized # None THEN Val(normalized) \div DayLen ELSE Val(timestamp)

\* (mutant) the date of the record written last is taken as the end of the range
TrackLastDate(w, date_value) ==
    [w EXCEPT
       !.date_start = IF @ = None \/ date_value < Val(@) THEN Some(date_value) ELSE @,
       !.date_end = Some(date_value)]

\* StreamingCSVWriter.write_record: "Track date range for records we actually write"
TrackDateRange(w, date_value) ==
    [w EXCEPT
       !.date_start = IF @ = None \/ date_value < Val(@) THEN Some(date_value) ELSE @,
       !.date_end = IF @ = None \/ date_value > Val(@) THEN Some(date_value) ELSE @]

\* (mutant) the comparison with the cutoff is strict: a record at the cutoff is written
WriteRecordStrict(w, record) ==
    IF record.item_id = None \/ record.timestamp = None THEN w
    ELSE LET normalized == NormalizeTimestampForCompare(record.timestamp)
         IN  IF /\ w.min_timestamp_exclusive # None
                /\ normalized # None
                /\ Val(normalized) < Val(w.min_timestamp_exclusive)
             THEN [w EXCEPT !.skipped_existing = @ + 1]
             ELSE [TrackDateRange(w, DateValue(normalized, record.timestamp))
                      EXCEPT !.rows = Append(@, record), !.count = @ + 1]

\* StreamingCSVWriter.write_record
WriteRecord(w, record) ==
    IF record.item_id = None \/ record.timestamp = None THEN w
    ELSE LET normalized == NormalizeTimestampForCompare(record.timestamp)
         IN  IF /\ w.min_timestamp_exclusive # None
                /\ normalized # None
                /\ Val(normalized) <= Val(w.min_timestamp_exclusive)
             THEN [w EXCEPT !.skipped_existing = @ + 1]
             ELSE [TrackDateRange(w, DateValue(normalized, record.timestamp))
                      EXCEPT !.rows = Append(@, record), !.count = @ + 1]

\* _record_from_copy_fields and _parse_value_tuples hand on a record only if it has an
\* item id and a timestamp
IsParsed(record) == record.item_id # None /\ record.timestamp # None

\* _import_from_sql_stream, for one parsed record: `continue` or batch.append(record)
LegacyAppend(batch, record, cutoff) ==
    LET normalized_ts == NormalizeTimestampForCompare(record.timestamp)
    IN  IF cutoff # None /\ normalized_ts # None /\ Val(normalized_ts) <= Val(cutoff)
        THEN batch
        ELSE Append(batch, record)

\* one record reaches the writer (write_record) and, if the parsers of the legacy
\* path let it through, the legacy loop
feed_record(record) ==
    /\ proc.fed < MaxBatch
    /\ proc' = [proc EXCEPT
                  !.writer = WriteRecord(@, record),
                  !.batch = IF IsParsed(record)
                            THEN LegacyAppend(@, record, proc.cutoff) ELSE @,
                  !.fed = @ + 1]
    /\ call' = Some(record)
    /\ UNCHANGED <<market_history, import_metadata, indexes_present, download_dir,
                   update_lock, progress, clock, run_seq>>

InitFilter ==
    /\ market_history = {}
    /\ import_metadata = {}
    /\ indexes_present = TRUE
    /\ download_dir = {}
    /\ update_lock = None
    /\ progress = EmptyProgressState
    /\ clock = 0
    /\ run_seq = 0
    /\ \E min_timestamp_exclusive \in CutoffArgs :
          proc = [writer |-> NewWriter(min_timestamp_exclusive),
                  cutoff |-> NormalizeTimestampForCompare(min_timestamp_exclusive),
                  batch |-> <<>>, fed |-> 0]
    /\ call = None

NextFilter == \E record \in ParsedRecords : feed_record(record)

SpecFilter == InitFilter /\ [][NextFilter]_vars


\* ------------------------------------------------ aggregation as a function
\* `market_history` is any table of raw rows of one item, location and quality, at
\* most one per timestamp; `call` is the last query and its rows.

\* DATE_TRUNC('day', timestamp), timestamps counted in ticks
DateTruncDay(ts) == ts \div (DayLen * SubSecond)

\* (mutant) the stack price is averaged as it is stored
PerStackExpr(r, column) ==
    IF r[column] = None THEN None ELSE Some(<<Val(r[column]), 1>>)

\* per_item_expr: CASE WHEN column IS NULL THEN NULL
\* ELSE column::DOUBLE / COALESCE(NULLIF(item_count, 0), 1) END, as a fraction
PerItemExpr(r, column) ==
    IF r[column] = None THEN None
    ELSE Some(<<Val(r[column]),
                IF r.item_count = None \/ Val(r.item_count) = 0 THEN 1
                ELSE Val(r.item_count)>>)

RECURSIVE SumFractions(_)
\* the sum of a set of <<row, fraction>> pairs, as one fraction
SumFractions(S) ==
    IF S = {} THEN <<0, 1>>
    ELSE LET x == CHOOSE y \in S : TRUE
             rest == SumFractions(S \ {x})
         IN  <<x[2][1] * rest[2] + rest[1] * x[2][2], x[2][2] * rest[2]>>

\* CAST(ROUND(AVG(expr)) AS INTEGER) over the rows of a group: NULL rows are left out,
\* ROUND rounds a half away from zero
RoundedAvg(rows, column) ==
    LET valued == {<<r, Val(PerItemExpr(r, column))>> :
                      r \in {x \in rows : PerItemExpr(x, column) # None}}
        total == SumFractions(valued)
        den == total[2] * Cardinality(valued)
    IN  IF valued = {} THEN None ELSE Some((2 * total[1] + den) \div (2 * den))

RECURSIVE SumCounts(_)
SumCounts(rows) ==
    IF rows = {} THEN 0
    ELSE LET r == CHOOSE x \in rows : TRUE
         IN  Val(r.item_count) + SumCounts(rows \ {r})

\* HistoryDatabase.get_aggregated_history(item_id, granularity="daily"): one row for
\* each (period, location, quality); their order is not modelled
GetAggregatedHistory(table, item_id) ==
    LET rows == {r \in table : r.item_id = item_id}
        GroupOf(r) == <<DateTruncDay(r.timestamp), r.location, r.quality>>
        Members(g) == {r \in rows : GroupOf(r) = g}
        counted(g) == {r \in Members(g) : r.item_count # None}
    IN  {[period |-> g[1], location |-> g[2], quality |-> g[3],
          avg_sell_min |-> RoundedAvg(Members(g), "sell_price_min"),
          avg_sell_max |-> RoundedAvg(Members(g), "sell_price_max"),
          avg_buy_min |-> RoundedAvg(Members(g), "buy_price_min"),
          avg_buy_max |-> RoundedAvg(Members(g), "buy_price_max"),
          total_volume |-> IF counted(g) = {} THEN None ELSE Some(SumCounts(counted(g))),
          data_points |-> Cardinality(Members(g))] : g \in {GroupOf(r) : r \in rows}}

\* two times of the first day and one of the second
AggregateTimestamps ==
    {Tick(DateTime(0, 0), 0), Tick(DateTime(0, 1), 0), Tick(DateTime(1, 0), 0)}

\* stack price and item count of a raw row: the rows of the statement, the rows of
\* test_get_aggregated_history, a count of 0, no count, no price
AggregateValues ==
    {<<Some(2500), Some(50)>>, <<Some(2600), Some(30)>>,
     <<Some(125000), Some(50)>>, <<Some(78000), Some(30)>>,
     <<Some(2500), Some(0)>>, <<Some(2600), None>>, <<None, Some(30)>>}

AggregateRows ==
    {HistoryRow(ts, v[1], None, v[2]) : ts \in AggregateTimestamps, v \in AggregateValues}

get_aggregated_history ==
    /\ call' = [op |-> "get_aggregated_history",
                rows |-> GetAggregatedHistory(market_history, "T4_BAG")]
    /\ UNCHANGED <<market_history, import_metadata, indexes_present, download_dir,
                   update_lock, progress, clock, run_seq, proc>>

InitAggregate ==
    /\ market_history \in {t \in SUBSET AggregateRows :
                              \A x, y \in t : RowKey(x) = RowKey(y) => x = y}
    /\ import_metadata = {}
    /\ indexes_present = TRUE
    /\ download_dir = {}
    /\ update_lock = None
    /\ progress = None
    /\ clock = 0
    /\ run_seq = 0
    /\ proc = <<>>
    /\ call = [op |-> "none", rows |-> {}]

NextAggregate == get_aggregated_history

SpecAggregate == InitAggregate /\ [][NextAggregate]_vars

\* ------------------------------------------------------ the record decoder
\* `proc` holds the loop variables of _stream_sql_to_csv (in_copy, in_insert,
\* column_map), the records handed to the staging writer (rows), and the block of the
\* dump the line read next lies in (block); `call` is the line read last.
\*
\* A str is a sequence of tokens; a token is one of the characters ( ) , ; ' " and,
\* within a table name, the dot, or a run of other characters. The dumps modelled hold
\* no white space around a value and no backslash escape but \N.

Text(word) == <<word>>

Least(S) == CHOOSE x \in S : \A y \in S : x <= y

Greatest(S) == CHOOSE x \in S : \A y \in S : y <= x

\* int() on the decimal tokens of the dumps modelled
IntOf ==
    ("0" :> 0) @@ ("1" :> 1) @@ ("2" :> 2) @@ ("5" :> 5) @@ ("6" :> 6) @@
    ("1002" :> 1002) @@ ("2004" :> 2004) @@ ("9999" :> 9999) @@
    ("2500" :> 2500) @@ ("2600" :> 2600) @@ ("33959" :> 33959) @@ ("50000" :> 50000) @@
    ("527231763" :> 527231763) @@ ("527231764" :> 527231764)

\* _parse_int: None for NULL and for whatever int() rejects
ParseInt(value) ==
    IF Len(value) = 1 /\ value[1] \in DOMAIN IntOf THEN Some(IntOf[value[1]]) ELSE None

LOCATION_MAP ==
    (7 :> "Black Market") @@ (1002 :> "Caerleon") @@ (2004 :> "Bridgewatch") @@
    (3003 :> "Lymhurst") @@ (3005 :> "Fort Sterling") @@ (3008 :> "Martlock") @@
    (3345 :> "Brecilien") @@ (4002 :> "Thetford") @@ (5003 :> "Fort Sterling")

\* LOCATION_MAP.get(location_id, str(location_id)) if location_id else "Unknown"
LocationName(location_id) ==
    IF location_id = None \/ Val(location_id) = 0 THEN Text("Unknown")
    ELSE IF Val(location_id) \in DOMAIN LOCATION_MAP THEN Text(LOCATION_MAP[Val(location_id)])
    ELSE Text(CHOOSE t \in DOMAIN IntOf : IntOf[t] = Val(location_id))

\* (mutant) the record carries the price as its minimum only
StagingRowWithoutMax(item_id, location_id, quality, timestamp, silver_amount, item_count) ==
    [item_id |-> item_id, location |-> LocationName(location_id),
     quality |-> IF quality = None \/ Val(quality) = 0 THEN 1 ELSE Val(quality),
     timestamp |-> timestamp,
     sell_price_min |-> silver_amount, sell_price_max |-> None,
     buy_price_min |-> None, buy_price_max |-> None, item_count |-> item_count]

\* the record both decoders build; `quality or 1`
StagingRow(item_id, location_id, quality, timestamp, silver_amount, item_count) ==
    [item_id |-> item_id, location |-> LocationName(location_id),
     quality |-> IF quality = None \/ Val(quality) = 0 THEN 1 ELSE Val(quality),
     timestamp |-> timestamp,
     sell_price_min |-> silver_amount, sell_price_max |-> silver_amount,
     buy_price_min |-> None, buy_price_max |-> None, item_count |-> item_count]

\* str.strip('"')
StripQuotes(text) ==
    LET kept == {i \in DOMAIN text : text[i] # "\""}
    IN  IF kept = {} THEN <<>> ELSE SubSeq(text, Least(kept), Greatest(kept))

\* _normalize_table_name: what follows the last dot, without the quotes around it
NormalizeTableName(table_name) ==
    LET dots == {i \in DOMAIN table_name : table_name[i] = "."}
    IN  StripQuotes(IF dots = {} THEN table_name
                    ELSE SubSeq(table_name, Greatest(dots) + 1, Len(table_name)))

\* _parse_copy_columns, and the dict {col: idx} built from its result: a name listed
\* twice keeps its last index
ColumnMap(columns) ==
    LET cleaned == [i \in DOMAIN columns |-> StripQuotes(columns[i])]
        listed == SelectSeq(cleaned, LAMBDA c : c # <<>>)
    IN  [c \in {listed[i] : i \in DOMAIN listed} |->
            Greatest({i \in DOMAIN listed : listed[i] = c})]

\* _split_copy_line: the fields between the tabs, \N read as None
SplitCopyLine(line) ==
    [i \in DOMAIN line.fields |->
        IF line.fields[i] = Text("\\N") THEN None ELSE Some(line.fields[i])]

\* (mutant) get_field reads the columns in the order of the AODP table, whatever the
\* header lists
GetFieldByPosition(fields, column_map, names) ==
    LET position == (Text("item_unique_name") :> 1) @@ (Text("item_id") :> 1) @@
                    (Text("location") :> 2) @@ (Text("quality_level") :> 3) @@
                    (Text("quality") :> 3) @@ (Text("timestamp") :> 4) @@
                    (Text("silver_amount") :> 5) @@ (Text("item_count") :> 6)
    IN  IF position[names[1]] <= Len(fields) THEN fields[position[names[1]]] ELSE None

\* get_field of _record_from_copy_fields: the field of the first of `names` that the
\* header lists at an index the line reaches
GetField(fields, column_map, names) ==
    LET found == {k \in DOMAIN names : /\ names[k] \in DOMAIN column_map
                                        /\ column_map[names[k]] <= Len(fields)}
    IN  IF found = {} THEN None ELSE fields[column_map[names[Least(found)]]]

\* (mutant) a line without item id or timestamp is turned into a record all the same
RecordFromCopyFieldsUnchecked(fields, column_map) ==
    LET Get(names) == GetField(fields, column_map, names)
        OrEmpty(field) == IF field = None THEN <<>> ELSE Val(field)
        OrNull(field) == IF field = None \/ Val(field) = <<>> THEN Text("NULL") ELSE Val(field)
    IN  Some(StagingRow(OrEmpty(Get(<<Text("item_unique_name"), Text("item_id")>>)),
                        ParseInt(OrNull(Get(<<Text("location")>>))),
                        ParseInt(OrNull(Get(<<Text("quality_level"), Text("quality")>>))),
                        OrEmpty(Get(<<Text("timestamp")>>)),
                        ParseInt(OrNull(Get(<<Text("silver_amount")>>))),
                        ParseInt(OrNull(Get(<<Text("item_count")>>)))))

\* _record_from_copy_fields
RecordFromCopyFields(fields, column_map) ==
    LET Get(names) == GetField(fields, column_map, names)
        Falsy(field) == field = None \/ Val(field) = <<>>
        OrNull(field) == IF Falsy(field) THEN Text("NULL") ELSE Val(field)
        item_id == Get(<<Text("item_unique_name"), Text("item_id")>>)
        timestamp == Get(<<Text("timestamp")>>)
    IN  IF Falsy(item_id) \/ Falsy(timestamp) THEN None
        ELSE Some(StagingRow(Val(item_id),
                             ParseInt(OrNull(Get(<<Text("location")>>))),
                             ParseInt(OrNull(Get(<<Text("quality_level"), Text("quality")>>))),
                             Val(timestamp),
                             ParseInt(OrNull(Get(<<Text("silver_amount")>>))),
                             ParseInt(OrNull(Get(<<Text("item_count")>>)))))

RECURSIVE SplitSqlValuesFrom(_, _, _, _, _)
\* the loop of _split_sql_values from character i on
SplitSqlValuesFrom(values_str, i, current, string_char, values) ==
    IF i > Len(values_str)
    THEN IF current # <<>> THEN Append(values, current) ELSE values
    ELSE LET char == values_str[i]
         IN  IF char \in {"'", "\""} /\ string_char = None
             THEN SplitSqlValuesFrom(values_str, i + 1, Append(current, char), Some(char), values)
             ELSE IF string_char = Some(char)
             THEN SplitSqlValuesFrom(values_str, i + 1, Append(current, char), None, values)
             ELSE IF char = "," /\ string_char = None
             THEN SplitSqlValuesFrom(values_str, i + 1, <<>>, None, Append(values, current))
             ELSE SplitSqlValuesFrom(values_str, i + 1, Append(current, char), string_char, values)

\* (mutant) every comma ends a value, quoted or not
SplitAtEveryComma(values_str) ==
    LET commas == {i \in DOMAIN values_str : values_str[i] = ","}
        ends == commas \cup {Len(values_str) + 1}
        starts == {1} \cup {i + 1 : i \in commas}
        Nth(k) == CHOOSE i \in starts : Cardinality({j \in starts : j < i}) = k - 1
        pieces == [k \in 1..Cardinality(starts) |->
                     SubSeq(values_str, Nth(k), Least({e \in ends : e >= Nth(k)}) - 1)]
    IN  IF pieces[Len(pieces)] = <<>> THEN SubSeq(pieces, 1, Len(pieces) - 1) ELSE pieces

\* _split_sql_values
SplitSqlValues(values_str) == SplitSqlValuesFrom(values_str, 1, <<>>, None, <<>>)

RECURSIVE ReplaceDoubledQuotes(_)
\* value.replace("''", "'")
ReplaceDoubledQuotes(value) ==
    IF Len(value) < 2 THEN value
    ELSE IF value[1] = "'" /\ value[2] = "'"
    THEN <<"'">> \o ReplaceDoubledQuotes(SubSeq(value, 3, Len(value)))
    ELSE <<value[1]>> \o ReplaceDoubledQuotes(Tail(value))

\* _clean_sql_string
CleanSqlString(value) ==
    LET quoted == /\ value # <<>>
                  /\ \/ value[1] = "'" /\ value[Len(value)] = "'"
                     \/ value[1] = "\"" /\ value[Len(value)] = "\""
    IN  ReplaceDoubledQuotes(IF quoted THEN SubSeq(value, 2, Len(value) - 1) ELSE value)

RECURSIVE TupleMatchesFrom(_, _)
\* tuple_pattern.finditer(line) from character i on: group 1 of every match of
\* \(([^()]+)\), left to right
TupleMatchesFrom(line, i) ==
    IF i > Len(line) THEN <<>>
    ELSE IF line[i] # "(" THEN TupleMatchesFrom(line, i + 1)
    ELSE LET parens == {j \in (i + 1)..Len(line) : line[j] \in {"(", ")"}}
         IN  IF parens # {} /\ line[Least(parens)] = ")" /\ Least(parens) > i + 1
             THEN <<SubSeq(line, i + 1, Least(parens) - 1)>>
                     \o TupleMatchesFrom(line, Least(parens) + 1)
             ELSE TupleMatchesFrom(line, i + 1)

RECURSIVE RecordsOfTuples(_)
\* the loop of _parse_value_tuples over the matches
RecordsOfTuples(matches) ==
    IF matches = <<>> THEN <<>>
    ELSE LET values == SplitSqlValues(Head(matches))
             item_id == CleanSqlString(values[4])
             timestamp == CleanSqlString(values[7])
             record == StagingRow(item_id, ParseInt(values[5]), ParseInt(values[6]),
                                  timestamp, ParseInt(values[3]), ParseInt(values[2]))
         IN  (IF Len(values) >= 7 /\ item_id # <<>> /\ timestamp # <<>>
              THEN <<record>> ELSE <<>>) \o RecordsOfTuples(Tail(matches))

\* _parse_value_tuples
ParseValueTuples(line) ==
    LET kept == {i \in DOMAIN line : line[i] \notin {",", ";"}}
        stripped == IF kept = {} THEN <<>> ELSE SubSeq(line, 1, Greatest(kept))
    IN  RecordsOfTuples(TupleMatchesFrom(stripped, 1))

\* ---- the dumps read
MaxLines == 4

\* a value of a tuple as the dump writes it: a bare word, or a literal between quotes
\* whose single quotes are doubled
Bare(word) == [quote |-> "", s |-> Text(word)]

Literal(quote, s) == [quote |-> quote, s |-> s]

RECURSIVE DoubleQuotes(_)
DoubleQuotes(s) ==
    IF s = <<>> THEN <<>>
    ELSE (IF Head(s) = "'" THEN <<"'", "'">> ELSE <<Head(s)>>) \o DoubleQuotes(Tail(s))

WriteValue(value) ==
    IF value.quote = "" THEN value.s
    ELSE IF value.quote = "'" THEN <<"'">> \o DoubleQuotes(value.s) \o <<"'">>
    ELSE <<value.quote>> \o value.s \o <<value.quote>>

RECURSIVE WriteValues(_)
WriteValues(values) ==
    IF values = <<>> THEN <<>>
    ELSE WriteValue(Head(values))
            \o (IF Len(values) > 1 THEN <<",">> ELSE <<>>) \o WriteValues(Tail(values))

RECURSIVE WriteTuples(_)
WriteTuples(tuples) ==
    IF tuples = <<>> THEN <<>>
    ELSE <<"(">> \o WriteValues(Head(tuples)) \o <<")">>
            \o (IF Len(tuples) > 1 THEN <<",">> ELSE <<>>) \o WriteTuples(Tail(tuples))

\* the tuple of test_parse_value_tuples
BagTuple ==
    <<Bare("527231763"), Bare("2"), Bare("33959"), Literal("'", Text("T4_BAG")),
      Bare("1002"), Bare("2"), Literal("'", Text("2026-01-15 10:00:00.000000")), Bare("6")>>

\* an item name with a comma and a quote in it, between double quotes a timestamp;
\* quality 0
QuotedTuple ==
    <<Bare("527231764"), Bare("5"), Bare("50000"),
      Literal("'", <<"T5_CAPE", ",", "KEEPER", "'", "S">>),
      Bare("2004"), Bare("0"), Literal("\"", Text("2026-01-16 11:00:00")), Bare("6")>>

\* six values
ShortTuple ==
    <<Bare("527231764"), Bare("5"), Bare("50000"), Literal("'", Text("T5_BAG")),
      Bare("2004"), Bare("1")>>

\* seven values: the auction type is missing
SevenTuple ==
    <<Bare("527231764"), Bare("5"), Bare("2600"), Literal("'", Text("T5_BAG")),
      Bare("2004"), Bare("1"), Literal("'", Text("2026-01-16 11:00:00"))>>

\* a price that is no number, a location LOCATION_MAP does not list, no quality
NonNumericTuple ==
    <<Bare("527231764"), Bare("2"), Bare("abc"), Literal("'", Text("T4_BAG")),
      Bare("9999"), Bare("NULL"), Literal("'", Text("2026-01-16 11:00:00")), Bare("6")>>

\* an empty item name
NoItemTuple ==
    <<Bare("527231764"), Bare("2"), Bare("2500"), Literal("'", <<>>),
      Bare("1002"), Bare("2"), Literal("'", Text("2026-01-16 11:00:00")), Bare("6")>>

\* a line of a dump: `kind` says what it is in the dump; `table` and `columns` are the
\* table name and the column list of a COPY header or an INSERT statement, `fields` the
\* text between the tabs of a data line, `text` what follows VALUES or the whole of a
\* line of tuples, written from `tuples`
Line(kind, table, columns, fields, tuples, ender) ==
    [kind |-> kind, table |-> table, columns |-> columns, fields |-> fields,
     tuples |-> tuples, text |-> WriteTuples(tuples) \o ender]

CopyHeader(table, columns) == Line("copy", table, columns, <<>>, <<>>, <<>>)

DataLine(fields) ==
    Line("data", <<>>, <<>>, [i \in DOMAIN fields |-> Text(fields[i])], <<>>, <<>>)

EndOfData == Line("end", <<>>, <<>>, <<>>, <<>>, <<>>)

InsertLine(table, tuples, ender) == Line("insert", table, <<>>, <<>>, tuples, ender)

TupleLine(tuples, ender) == Line("tuples", <<>>, <<>>, <<>>, tuples, ender)

CommentLine == Line("comment", <<>>, <<>>, <<>>, <<>>, <<>>)

\* the column list of the decoder round trip, "timestamp" quoted as pg_dump quotes it
RoundTripColumns ==
    <<Text("item_unique_name"), Text("location"), Text("quality_level"),
      <<"\"", "timestamp", "\"">>, Text("silver_amount")>>

\* the same table dumped under the other names the decoder reads, in another order
OtherOrderColumns ==
    <<Text("timestamp"), Text("silver_amount"), Text("item_id"), Text("quality"),
      Text("location")>>

CopyHeaders ==
    {CopyHeader(<<"public", ".", "market_history">>, RoundTripColumns),
     CopyHeader(<<"market_history">>, OtherOrderColumns),
     CopyHeader(<<"public", ".", "\"", "MARKET_HISTORY", "\"">>, RoundTripColumns),
     CopyHeader(<<"public", ".", "market_orders">>, RoundTripColumns)}

\* the data line of the round trip; a line without item id; one with a price that is
\* no number, an unlisted location and quality 0; one cut after two fields; one cut
\* before the price, without quality; the first line again in the other order
DataLines ==
    {DataLine(<<"T4_BAG", "1002", "2", "2026-01-15 10:00:00", "2500">>),
     DataLine(<<"\\N", "1002", "2", "2026-01-15 10:00:00", "2500">>),
     DataLine(<<"T4_BAG", "9999", "0", "2026-01-16 11:00:00", "abc">>),
     DataLine(<<"T5_BAG", "2004">>),
     DataLine(<<"T4_BAG", "1002", "\\N", "2026-01-16 11:00:00">>),
     DataLine(<<"2026-01-15 10:00:00", "2500", "T4_BAG", "2", "1002">>)}

InsertLines ==
    {InsertLine(<<"public", ".", "market_history">>, <<BagTuple, QuotedTuple>>, <<";">>),
     InsertLine(<<"market_history_old">>, <<BagTuple>>, <<";">>),
     InsertLine(<<"\"", "MARKET_HISTORY", "\"">>, <<>>, <<>>),
     InsertLine(<<"public", ".", "item_names">>, <<>>, <<>>)}

TupleLines ==
    {TupleLine(<<BagTuple, ShortTuple, QuotedTuple>>, <<";">>),
     TupleLine(<<NonNumericTuple, NoItemTuple, SevenTuple>>, <<",">>)}

DumpLines == CopyHeaders \cup DataLines \cup {EndOfData} \cup InsertLines
                \cup TupleLines \cup {CommentLine}

\* ---- what the loop reads off a stripped line
\* stripped.startswith("--") (no line modelled is blank)
IsComment(line) == line.kind = "comment"

\* copy_pattern.match(stripped)
MatchesCopyPattern(line) == line.kind = "copy"

StartsWithParen(line) == line.text # <<>> /\ line.text[1] = "("

\* stripped.endswith(";"), for the lines that come to that test
EndsWithSemicolon(line) == line.text # <<>> /\ line.text[Len(line.text)] = ";"

\* "MARKET_HISTORY" in token.upper()
UpperHasMarketHistory(token) ==
    token \in {"market_history", "MARKET_HISTORY", "market_history_old"}

\* "INSERT INTO" in upper_line and "MARKET_HISTORY" in upper_line
NamesMarketHistoryInsert(line) ==
    /\ line.kind = "insert"
    /\ \E i \in DOMAIN line.table : UpperHasMarketHistory(line.table[i])

\* ---- the loop
NewDecoder ==
    [in_copy |-> FALSE, in_insert |-> FALSE, column_map |-> <<>>, rows |-> <<>>,
     block |-> None, fed |-> 0]

\* one pass of the loop of _stream_sql_to_csv: what it does to in_copy, in_insert,
\* column_map and to the records written
StreamLine(d, line) ==
    IF d.in_copy
    THEN IF line.kind = "end" THEN [d EXCEPT !.in_copy = FALSE]
         ELSE LET record == RecordFromCopyFields(SplitCopyLine(line), d.column_map)
              IN  IF record # None THEN [d EXCEPT !.rows = Append(@, Val(record))] ELSE d
    ELSE IF IsComment(line) THEN d
    ELSE IF MatchesCopyPattern(line)
    THEN IF NormalizeTableName(line.table) = Text("market_history")
         THEN [d EXCEPT !.in_copy = TRUE, !.column_map = ColumnMap(line.columns)]
         ELSE d
    ELSE IF d.in_insert
    THEN [d EXCEPT !.rows = IF StartsWithParen(line) THEN @ \o ParseValueTuples(line.text)
                            ELSE @,
                   !.in_insert = ~EndsWithSemicolon(line)]
    ELSE IF NamesMarketHistoryInsert(line)
    THEN [d EXCEPT !.rows = IF line.text # <<>> THEN @ \o ParseValueTuples(line.text) ELSE @,
                   !.in_insert = ~EndsWithSemicolon(line)]
    ELSE d

\* the block of the dump that follows `line`: the data of a COPY up to \. , the tuples
\* of an INSERT up to its semicolon
BlockAfter(block, line) ==
    IF line.kind = "copy" THEN Some([table |-> line.table, columns |-> line.columns])
    ELSE IF line.kind = "insert"
    THEN IF EndsWithSemicolon(line) THEN None
         ELSE Some([table |-> line.table, columns |-> <<>>])
    ELSE IF line.kind = "end" \/ (line.kind = "tuples" /\ EndsWithSemicolon(line)) THEN None
    ELSE block

\* the lines a dump can hold next: data lines and \. in a COPY block, lines of tuples
\* in an INSERT statement, statements and comments elsewhere
NextLines(d) ==
    IF d.block = None THEN CopyHeaders \cup InsertLines \cup {CommentLine}
    ELSE IF Val(d.block).columns # <<>> THEN DataLines \cup {EndOfData}
    ELSE TupleLines

\* `for raw_line in stream`: the loop reads the next line
read_line(line) ==
    /\ proc.fed < MaxLines
    /\ line \in NextLines(proc)
    /\ proc' = [StreamLine(proc, line) EXCEPT !.block = BlockAfter(proc.block, line),
                                              !.fed = @ + 1]
    /\ call' = Some(line)
    /\ UNCHANGED <<market_history, import_metadata, indexes_present, download_dir,
                   update_lock, progress, clock, run_seq>>

InitDecode ==
    /\ market_history = {}
    /\ import_metadata = {}
    /\ indexes_present = TRUE
    /\ download_dir = {}
    /\ update_lock = None
    /\ progress = EmptyProgressState
    /\ clock = 0
    /\ run_seq = 0
    /\ proc = NewDecoder
    /\ call = None

NextDecode == \E line \in DumpLines : read_line(line)

SpecDecode == InitDecode /\ [][NextDecode]_vars

\* ------------------------------------------------------------------ claim C5

Recommended == {call.result[i] : i \in 1..Len(call.result)}

\* C5: for every list of available snapshots and every non-empty store,
\* get_recommended_dumps never returns a snapshot whose estimated coverage end is
\* less than or equal to the store's current max timestamp.
C5_NeverRecommendsCovered ==
    (call.op = "get_recommended_dumps" /\ market_history # {}) =>
        \A d \in Recommended :
            DumpCoverageEnd(d) # None =>
                Tick(Val(DumpCoverageEnd(d)), 0) > Val(MaxTimestamp(market_history))

\* a listing that holds a covered snapshot, and a dated snapshot is recommended
C5_Witness ==
    /\ call.op = "get_recommended_dumps" /\ market_history # {}
    /\ Len(call.available) = MaxAvail
    /\ import_metadata = {}
    /\ \E i \in 1..Len(call.available) :
          /\ DumpCoverageEnd(call.available[i]) # None
          /\ Tick(Val(DumpCoverageEnd(call.available[i])), 0)
                <= Val(MaxTimestamp(market_history))
    /\ \E d \in Recommended : DumpCoverageEnd(d) # None

\* ------------------------------------------------------------ claims C3, C4

PriceFields == {"sell_price_min", "sell_price_max", "buy_price_min", "buy_price_max"}

WrittenOnce(records, k) == Cardinality({i \in 1..Len(records) : RowKey(records[i]) = k}) = 1

\* A write through one of the paths `ops` onto a stored key leaves every price equal
\* to the incoming value when that is non-null and to the stored value otherwise.
NullNeverOverwrites(ops) ==
    (call'.op \in ops /\ ~call'.raised) =>
        \A old \in market_history : \A i \in 1..Len(call'.records) :
            (RowKey(call'.records[i]) = RowKey(old) /\ WrittenOnce(call'.records, RowKey(old)))
            => \E new \in market_history' :
                  /\ RowKey(new) = RowKey(old)
                  /\ \A f \in PriceFields : new[f] = Coalesce(call'.records[i][f], old[f])

\* C3: for every write path into market_history (bulk_insert_from_csv and
\* insert_records), writing a row whose key already exists never replaces a stored
\* non-null price with null: each price ends as the incoming value if that is
\* non-null and as the previously stored value otherwise.
C3_NullNeverOverwritesAnyPath ==
    [][NullNeverOverwrites({"bulk_insert_from_csv", "insert_records"})]_vars

\* the same statement for the bulk path alone
C3_NullNeverOverwritesBulkPath == [][NullNeverOverwrites({"bulk_insert_from_csv"})]_vars

KeysUnique == \A x, y \in market_history : RowKey(x) = RowKey(y) => x = y

\* C4: importing the same batch of staged rows twice leaves market_history equal to
\* importing it once (the second import adds no row), and after any sequence of
\* imports no two stored rows share the key (item_id, location, quality, timestamp).
C4_IdempotentReimport ==
    /\ []KeysUnique
    /\ [][(call'.op = "bulk_insert_from_csv" /\ call'.again)
            => (market_history' = market_history /\ call'.result = 0)]_vars

C4_Witness ==
    /\ call.op = "bulk_insert_from_csv" /\ call.again
    /\ Len(call.records) = MaxBatch
    /\ \E x \in market_history : x.sell_price_min = Some(2) /\ x.buy_price_min = Some(1)

\* ------------------------------------------------------------- claim C10

\* the fields of the Run that the step changed
ChangedFields == {k \in DOMAIN progress : progress'[k] # progress[k]}

TrackerWriteWith(run_id_set) ==
    /\ call'.op \in {"_set_progress", "_finalize_progress"}
    /\ call'.run_id \in run_id_set
    /\ call'.run_id # progress.run_id

\* C10 as stated: a call of _set_progress or _finalize_progress whose run_id is not the
\* tracker's current run_id, an absent run_id included, changes no field of the Run.
C10_StaleOrAbsentRunIdIsNoOp ==
    [][TrackerWriteWith(RunIdArgs) => ChangedFields = {}]_vars

\* C10 for the calls that name a run: a call of _set_progress or _finalize_progress
\* that is given a run_id other than the tracker's current one changes no field of the
\* Run, updated_at included, after any sequence of start, finalize and clear.
C10_StaleRunIdIsNoOp ==
    [][TrackerWriteWith(RunIdArgs \ {None}) => ChangedFields = {}]_vars

\* a stale call arrived after a later start: the tracker holds run 2, the call named
\* run 1 and came after the clock moved on, and updated_at is still the start time
C10_Witness ==
    /\ call.op \in {"_set_progress", "_finalize_progress"}
    /\ call.run_id = Some(1)
    /\ progress.run_id = Some(2)
    /\ progress.stage = "starting"
    /\ progress.updated_at = progress.started_at
    /\ clock > Val(progress.started_at)

\* ------------------------------------------------------ claims C1 and C2

\* caller p is between acquiring and releasing the run lock
InsideRun(p) == proc[p].pc \notin {"ready", "refused"}

\* caller p is between _start_progress and _finalize_progress
Reporting(p) == proc[p].pc \notin {"ready", "refused", "locked", "release"}

\* C1: at any moment at most one execution of the update pipeline, started through
\* update() or start_background_update(), is between acquiring and releasing the run
\* lock, and it is the holder of the lock; so no second run drops indexes, bulk loads
\* or recreates indexes while another run is inside.
C1_SingleFlight ==
    /\ Cardinality({p \in Procs : InsideRun(p)}) <= 1
    /\ \A p \in Procs : InsideRun(p) => update_lock = Some(p)

\* one caller is bulk loading while the other has just been turned away
C1_Witness ==
    \E p, q \in Procs :
        /\ p # q
        /\ proc[p].pc = "bulk_load"
        /\ proc[q].pc = "refused"

\* caller p attempts a start in this step
StartAttempt(p) ==
    /\ proc[p].pc = "ready"
    /\ \/ proc'[p].pc \in {"locked", "refused"}
       \/ call' = ApiCall("update", p, FALSE, TRUE, None)

\* C2: a start attempt made while a run is active is turned away at once:
\* start_background_update answers started = false with the current progress snapshot,
\* update() raises, and neither changes any field of the Run; the Run stays that of
\* the run inside for as long as it reports.
C2_RefusedStartLeavesRun ==
    /\ [](\A p \in Procs : Reporting(p) => /\ progress.run_id = proc[p].run_id
                                           /\ progress.status = "running")
    /\ [][\A p \in Procs :
            /\ (update_lock # None /\ StartAttempt(p))
                  => /\ progress' = progress
                     /\ update_lock' = update_lock
                     /\ proc'[p].pc \in {"ready", "refused"}
            /\ (proc[p].pc = "refused" /\ proc'[p].pc = "ready")
                  => /\ progress' = progress
                     /\ call'.op = "start_background_update"
                     /\ ~call'.started
                     /\ call'.out.progress = progress]_vars

\* start_background_update has just answered started = false during an import, some
\* time after the run's last report
C2_Witness ==
    /\ call.op = "start_background_update"
    /\ ~call.started
    /\ call.out.progress = progress
    /\ \E q \in Procs : proc[q].pc \in ImportPcs
    /\ clock > Val(progress.updated_at)

\* ------------------------------------------------------------- claim C6

DumpNamesOf(dumps) == {dumps[i].name : i \in 1..Len(dumps)}
SeqRange(s) == {s[i] : i \in 1..Len(s)}
ErrorsFor(l, name, kind) ==
    {k \in 1..Len(l.errors) : l.errors[k] = ErrorMessage(name, kind)}

\* C6: when _process_dumps returns, whatever subset of the downloads failed: every
\* download has settled on its own outcome, a snapshot whose download failed has
\* exactly one "Download failed" message and is not imported, a snapshot whose download
\* succeeded was handed to the import (it is in imported[] unless its own import
\* raised, which leaves exactly one "Import failed" message), errors[] holds nothing
\* else, and success is reported exactly when errors[] is empty. A download that
\* fails changes no sibling's state.
C6_FailedDownloadsAreIsolated ==
    /\ [](\A p \in Procs :
            LET l == proc[p]
                n == Len(l.to_process)
            IN  (l.pc = "returned" /\ n > 0) =>
                  /\ \A i \in 1..n :
                       LET name == l.to_process[i].name
                       IN  /\ l.dl[i] \in {"ok", "failed"}
                           /\ l.dl[i] = "failed" =>
                                /\ Cardinality(ErrorsFor(l, name, "Download failed")) = 1
                                /\ name \notin SeqRange(l.imported)
                                /\ name \notin SeqRange(l.downloaded)
                           /\ l.dl[i] = "ok" =>
                                /\ name \in SeqRange(l.downloaded)
                                /\ ErrorsFor(l, name, "Download failed") = {}
                                /\ (name \in SeqRange(l.imported))
                                      # (Cardinality(ErrorsFor(l, name, "Import failed")) = 1)
                  /\ Len(l.errors) + Len(l.imported) = n
                  /\ Val(l.result).success = (l.errors = <<>>)
                  /\ Val(l.result).errors = l.errors
                  /\ Val(l.result).imported = l.imported)
    /\ [][\A p \in Procs : \A i \in 1..Len(proc[p].dl) :
            (proc[p].pc = "downloading" /\ proc'[p].pc = "downloading"
                /\ proc[p].dl[i] # "failed" /\ proc'[p].dl[i] = "failed")
              => \A j \in 1..Len(proc[p].dl) : j # i => proc'[p].dl[j] = proc[p].dl[j]]_vars

\* three snapshots were selected, the second download failed, the first and third
\* were imported and the result carries the one error
C6_Witness ==
    \E p \in Procs :
        LET l == proc[p]
        IN  /\ l.pc = "returned"
            /\ l.dl = <<"ok", "failed", "ok">>
            /\ l.imported = <<l.to_process[1].name, l.to_process[3].name>>
            /\ Len(l.errors) = 1
            /\ l.total_records > 0
            /\ ~Val(l.result).success

\* ------------------------------------------------------------- claim C7

\* positions of a run after _process_dumps has returned or raised
AfterProcessPcs == {"returned", "finalize_completed", "release"}

\* C7: in every run that drops the secondary indexes, create_indexes is called after
\* the last import attempt and before the run lock is released, whatever failed or was
\* cancelled on the way; a run is past create_indexes only if it dropped; and a run
\* that selected no snapshot neither drops nor recreates.
C7_DroppedIndexesAreRecreated ==
    /\ [](\A p \in Procs :
            LET l == proc[p]
            IN  /\ l.recreated => (l.dropped /\ l.pc \notin ImportPcs \cup {"downloading"})
                /\ (l.dropped /\ l.pc \in AfterProcessPcs \cup {"failed", "finalize_failed"})
                      => l.recreated
                /\ (l.pc \in AfterProcessPcs /\ l.result # None /\ l.to_process = <<>>)
                      => (~l.dropped /\ ~l.recreated))
    /\ [][\A p \in Procs :
            (update_lock = Some(p) /\ update_lock' = None /\ proc[p].dropped)
               => proc[p].recreated]_vars

\* a cancelled inline run that had dropped the indexes is about to release the lock
C7_Witness ==
    \E p \in Procs :
        /\ proc[p].pc = "release"
        /\ proc[p].exc = Some("CancelledError")
        /\ proc[p].dropped
        /\ proc[p].recreated

\* ------------------------------------------------------------- claim C8

ImportBodyPcs == ImportPcs \ {"import_next"}

\* C8: no import starts before every selected download has finished or failed; the
\* imports run one at a time in list order (while one snapshot is in the loop body,
\* every earlier snapshot has been imported or has its error and no later one has been
\* started); and the cutoff an import decodes with is the store's maximum timestamp
\* read when that import began, after every earlier import of the run completed.
C8_ImportsAfterDownloadsInOrder ==
    /\ [](\A p \in Procs :
            LET l == proc[p]
                n == Len(l.to_process)
            IN  /\ l.pc \in ImportPcs => \A i \in 1..n : l.dl[i] \in {"ok", "failed"}
                /\ l.pc \in ImportBodyPcs =>
                     /\ l.index \in 1..n
                     /\ Len(l.imported) + Len(l.errors) = l.index - 1
                     /\ \A j \in 1..n : (l.to_process[j].name \in SeqRange(l.downloaded))
                                           => j <= l.index
                /\ l.pc \in {"decode", "bulk_load", "legacy_insert"} =>
                     l.current_max_timestamp
                        = NormalizeTimestampForCompare(MaxTimestamp(market_history)))
    /\ [][\A p \in Procs :
            (proc[p].pc = "import_dump" /\ proc'[p].pc = "decode")
               => proc'[p].current_max_timestamp
                     = NormalizeTimestampForCompare(MaxTimestamp(market_history))]_vars

\* the second import of a run decodes with the timestamp the first import stored
C8_Witness ==
    \E p \in Procs :
        LET l == proc[p]
        IN  /\ l.pc = "bulk_load"
            /\ l.index = 2
            /\ l.total_records = 1
            /\ l.current_max_timestamp = Some(1)
            /\ Len(l.staged) = 1

\* ------------------------------------------------------------- claim C9

StatusChangesWithin(allowed) ==
    progress'.status # progress.status => <<progress.status, progress'.status>> \in allowed

\* the changes the state machine idle -> running -> {completed, failed} -> idle names
ListedStatusChanges ==
    {<<"idle", "running">>, <<"running", "completed">>, <<"running", "failed">>,
     <<"completed", "idle">>, <<"failed", "idle">>}

\* C11 as stated: every change of the Run status is idle to running, running to
\* completed, running to failed, completed to idle or failed to idle, under any
\* sequence of start, finalize and clear calls.
C11_OnlyListedStatusChanges == [][StatusChangesWithin(ListedStatusChanges)]_vars

\* what the tracker's methods add: _start_progress replaces a finished Run as it
\* replaces an idle one, and _finalize_progress with the current run_id rewrites the
\* status of a Run that is already finished
TrackerStatusChanges ==
    ListedStatusChanges
        \cup {<<"completed", "running">>, <<"failed", "running">>,
              <<"completed", "failed">>, <<"failed", "completed">>}

\* C11 for the tracker as written: every change of the Run status is idle, completed
\* or failed to running (start), running to completed or failed, or between completed
\* and failed (finalize with the current run_id), or completed or failed to idle
\* (clear); an idle Run is never finalized and a running Run never becomes idle.
C11_OnlyTrackerStatusChanges == [][StatusChangesWithin(TrackerStatusChanges)]_vars

\* the whole cycle was walked: a second run was started, finalized as failed and then
\* cleared back to idle
C11_Witness ==
    /\ run_seq = 2
    /\ progress.status = "idle"
    /\ progress.run_id = None
    /\ call.op = "clear_update_progress"
    /\ ~call.raised

\* ------------------------------------------------------------- claim C12

\* the step is a completed call of clear_update_progress
ClearStep == call'.op = "clear_update_progress" /\ call' # call

\* p is the empty idle Run: status and stage idle, no run_id, every counter 0, no
\* errors, no result
IsEmptyIdleRun(p) ==
    /\ p.status = "idle" /\ p.stage = "idle"
    /\ p.run_id = None
    /\ p.progress_pct = 0
    /\ p.total_dumps = 0 /\ p.completed_dumps = 0
    /\ p.downloaded_bytes = 0 /\ p.download_total_bytes = 0
    /\ p.records_parsed = 0 /\ p.records_skipped_existing = 0 /\ p.records_imported = 0
    /\ p.started_at = None /\ p.finished_at = None /\ p.current_dump = None
    /\ p.errors = <<>>
    /\ p.result = None

\* C12: clear_update_progress called while the Run status is running raises and leaves
\* the Run unchanged; called in any other status it resets the Run to the empty idle
\* state and returns the snapshot of that state.
C12_ClearRejectedOnlyWhileRunning ==
    [][ClearStep =>
         IF progress.status = "running"
         THEN /\ call'.raised
              /\ call'.returned = None
              /\ progress' = progress
         ELSE /\ ~call'.raised
              /\ IsEmptyIdleRun(progress')
              /\ call'.returned # None
              /\ Val(call'.returned).progress = progress'
              /\ Val(call'.returned).elapsed_seconds = None
              /\ Val(call'.returned).eta_seconds = None]_vars

\* the first run was finalized and then cleared at the last tick of the clock: the Run
\* is the empty state stamped with the time of the clear, and the call returned it
C12_Witness ==
    /\ call.op = "clear_update_progress"
    /\ call.returned = Some([progress |-> [EmptyProgressState EXCEPT
                                              !.updated_at = Some(MaxClock)],
                             elapsed_seconds |-> None, eta_seconds |-> None])
    /\ progress = [EmptyProgressState EXCEPT !.updated_at = Some(MaxClock)]
    /\ run_seq = 1

\* ------------------------------------------------------------- claim C13

\* caller p is past the loop iteration of the snapshot named nm
IterationOver(p, nm) ==
    LET l == proc[p]
    IN  \/ l.pc \notin ImportPcs
        \/ l.pc = "import_next"
        \/ l.index > Len(l.to_process)
        \/ l.to_process[l.index].name # nm

\* once the iteration of a snapshot without a market_history section is over, the
\* failure is in errors[] and in the Run, the snapshot does not count as imported and
\* it has no Import Metadata row
NoSectionIsAnError(paths) ==
    \A p \in DOMAIN proc :
        LET l == proc[p]
        IN  (l.use_bulk_loading \in paths /\ l.no_section # None
                /\ IterationOver(p, Val(l.no_section)))
            => /\ ErrorMessage(Val(l.no_section), "Import failed") \in SeqRange(l.errors)
               /\ Val(l.no_section) \notin SeqRange(l.imported)
               /\ \A m \in import_metadata : m.dump_name # Val(l.no_section)

\* a snapshot that import_dump finds fully covered by the store's max timestamp is not
\* an error: it ends as a zero-record import with a row in Import Metadata
CoveredIsAZeroImport ==
    \A p \in DOMAIN proc :
        LET l == proc[p]
            dump == l.to_process[l.index]
        IN  /\ (l.pc = "import_dump"
                  /\ IsDumpFullyCovered(dump, GetCurrentMaxTimestamp(market_history))
                  /\ proc'[p] # l)
               => /\ proc'[p].pc = "import_done"
                  /\ proc'[p].count = 0
                  /\ proc'[p].errors = l.errors
            /\ (l.pc = "import_done" /\ l.count = 0 /\ l.no_section # Some(dump.name)
                  /\ proc'[p] # l)
               => /\ MetadataRow(dump.name, 0) \in import_metadata'
                  /\ proc'[p].imported = Append(l.imported, dump.name)
                  /\ proc'[p].errors = l.errors

\* C13 as stated: importing a snapshot whose dump holds no COPY block and no INSERT
\* statement for the target table fails with an error recorded in errors[] and writes
\* no Import Metadata row, while a snapshot that is merely fully covered ends as a
\* zero-record import recorded in Import Metadata, on the bulk-loading path as on the
\* legacy path.
C13_NoSectionIsAnErrorOnBothPaths ==
    /\ [](NoSectionIsAnError(BOOLEAN))
    /\ [][CoveredIsAZeroImport]_vars

\* the same statement for the legacy path alone (use_bulk_loading = False)
C13_NoSectionIsAnErrorOnLegacyPath ==
    /\ [](NoSectionIsAnError({FALSE}))
    /\ [][CoveredIsAZeroImport]_vars

\* a legacy import met an archive without a market_history section and went on
C13_LegacyCase ==
    \E p \in DOMAIN proc :
        /\ ~proc[p].use_bulk_loading
        /\ proc[p].no_section # None
        /\ proc[p].pc = "returned"

\* ------------------------------------------------------------- claim C14

\* the run of caller p has failed at the remote listing
ListingFailed(p) == proc[p].exc = Some("index fetch failed")

ListingError == RunError("index fetch failed")

\* nothing of the pipeline lies behind a run that failed at the listing: no download,
\* no index drop, no imported snapshot, no record; and it still holds the run lock
NothingDoneBeforeListing ==
    \A p \in Procs :
        ListingFailed(p) =>
            LET l == proc[p]
            IN  /\ l.pc \in {"failed", "finalize_failed", "release"}
                /\ update_lock = Some(p)
                /\ l.to_process = <<>> /\ l.dl = <<>> /\ l.downloaded = <<>>
                /\ ~l.dropped /\ ~l.recreated
                /\ l.imported = <<>> /\ l.total_records = 0 /\ l.count = 0
                /\ l.result = None

\* the steps of a run that failed at the listing: the error goes to errors[], the Run is
\* finalized as failed, then the lock is released (and update() raises); none of them
\* writes to the store, the indexes or the download directory
ListingFailureEndsRun ==
    \A p \in Procs :
        (ListingFailed(p) /\ proc'[p].pc # proc[p].pc) =>
            /\ UNCHANGED <<market_history, import_metadata, indexes_present, download_dir>>
            /\ CASE proc[p].pc = "failed" ->
                      /\ proc'[p].pc = "finalize_failed"
                      /\ progress'.status = "running"
                      /\ progress'.errors = <<ListingError>>
                 [] proc[p].pc = "finalize_failed" ->
                      /\ proc'[p].pc = "release"
                      /\ progress'.status = "failed" /\ progress'.stage = "failed"
                      /\ progress'.run_id = proc[p].run_id
                      /\ progress'.errors = <<ListingError>>
                      /\ progress'.result = Some([success |-> FALSE,
                                                  errors |-> <<ListingError>>])
                      /\ progress'.finished_at = Some(clock)
                 [] proc[p].pc = "release" ->
                      /\ proc'[p].pc = "ready"
                      /\ LockFree(update_lock')
                      /\ proc[p].mode = "inline"
                            => call' = ApiCall("update", p, TRUE, TRUE, None)
                 [] OTHER -> FALSE

\* C14: if fetching the remote listing fails, the run ends with status failed and the
\* error in errors[] (update() re-raises it), no download, index drop, record write or
\* metadata write has taken place, and the run lock is released so that a later start
\* attempt succeeds.
C14_ListingFailureIsFatalAndClean ==
    /\ []NothingDoneBeforeListing
    /\ [][ListingFailureEndsRun]_vars

\* the Run still shows the failed listing of run 1 while a later start attempt has
\* already acquired the lock
C14_Witness ==
    /\ progress.status = "failed"
    /\ progress.errors = <<ListingError>>
    /\ progress.run_id = Some(1)
    /\ \E q \in Procs : proc[q].pc = "locked" /\ update_lock = Some(q)

\* ------------------------------------------------------------- claim C15

\* the downloads of caller p that wait for a slot
WaitingDownloads(l) == {j \in 1..Len(l.dl) : l.dl[j] = "pending"}

\* no more than parallel_downloads downloads are in progress; while downloads wait,
\* the run is not stuck: a free slot lets a waiting download start (once a download
\* that found its file on disk, which does not suspend, has returned), and with no
\* free slot a download in progress can move on
DownloadsWithinLimit ==
    \A p \in Procs :
        LET l == proc[p]
        IN  /\ ActiveDownloads(l) <= l.parallel_downloads
            /\ (l.pc = "downloading" /\ WaitingDownloads(l) # {})
                  => IF /\ ActiveDownloads(l) < l.parallel_downloads
                        /\ \A j \in 1..Len(l.dl) : l.dl[j] # "cached"
                     THEN \E i \in WaitingDownloads(l) : ENABLED download_with_semaphore(p, i)
                     ELSE \E i \in 1..Len(l.dl) :
                             \/ ENABLED download_cached(p, i)
                             \/ ENABLED download_open(p, i)
                             \/ ENABLED download_chunks(p, i)
            /\ l.pc \in ImportPcs => WaitingDownloads(l) = {}

\* a waiting download either goes on waiting or starts, into a slot that was free; it
\* is not turned into a failure and adds nothing to errors
WaitingDownloadsAreNotRejected ==
    \A p \in Procs :
        \A i \in WaitingDownloads(proc[p]) :
            /\ proc'[p].dl[i] \in {"pending", "requested", "cached"}
            /\ proc'[p].dl[i] # "pending"
                  => ActiveDownloads(proc[p]) < proc[p].parallel_downloads
            /\ proc'[p].errors = proc[p].errors
            /\ progress'.errors = progress.errors

\* C15: at every moment of a run the number of downloads in progress is at most
\* parallel_downloads; a download beyond the limit waits and starts once a slot is
\* free, and is never rejected or reported as an error because of the limit.
C15_DownloadsBoundedAndQueued ==
    /\ []DownloadsWithinLimit
    /\ [][WaitingDownloadsAreNotRejected]_vars

\* with parallel_downloads = 2 and three snapshots, the third started only after the
\* first had failed, while the second is still being written
C15_Witness ==
    \E p \in Procs :
        /\ proc[p].parallel_downloads = 2
        /\ proc[p].dl = <<"failed", "open", "requested">>

\* ------------------------------------------------------------- claim C16

\* the rule of the claim: with cutoff c (normalized), the record is kept exactly when
\* its normalized timestamp is strictly greater than c or it has none
KeptByRule(record, c) ==
    \/ c = None
    \/ NormalizeTimestampForCompare(record.timestamp) = None
    \/ Val(NormalizeTimestampForCompare(record.timestamp)) > Val(c)

\* what feeding `record` did to the writer and to the legacy batch
FedByRule(record) ==
    LET c == proc.cutoff
        w == proc.writer
    IN  /\ ~IsParsed(record)
           => /\ proc'.writer = w
              /\ proc'.batch = proc.batch
        /\ (IsParsed(record) /\ KeptByRule(record, c))
           => /\ proc'.writer.rows = Append(w.rows, record)
              /\ proc'.writer.count = w.count + 1
              /\ proc'.writer.skipped_existing = w.skipped_existing
              /\ proc'.batch = Append(proc.batch, record)
        /\ (IsParsed(record) /\ ~KeptByRule(record, c))
           => /\ proc'.writer.rows = w.rows
              /\ proc'.writer.count = w.count
              /\ proc'.writer.skipped_existing = w.skipped_existing + 1
              /\ proc'.batch = proc.batch

CoveredNow(dump) ==
    LET coverage_end == DumpCoverageEnd(dump)
        current_max == GetCurrentMaxTimestamp(market_history)
    IN  /\ coverage_end # None
        /\ current_max # None
        /\ Val(coverage_end) <= Val(current_max)

\* the step in which import_dump looks at the store: a snapshot covered by the store
\* as it is at that moment is not decoded and counts 0 records, any other is decoded
\* behind the cutoff read at that moment
RecheckAtImport ==
    \A p \in Procs :
        LET l == proc[p]
            dump == l.to_process[l.index]
        IN  (l.pc = "import_dump" /\ proc'[p] # l) =>
               /\ market_history' = market_history
               /\ import_metadata' = import_metadata
               /\ IF CoveredNow(dump)
                  THEN /\ proc'[p].pc = "import_done"
                       /\ proc'[p].count = 0
                       /\ proc'[p].staged = <<>>
                  ELSE /\ proc'[p].pc = "decode"
                       /\ proc'[p].current_max_timestamp
                             = GetCurrentMaxTimestamp(market_history)

\* a snapshot that returned 0 records leaves the store's rows as they are
ZeroImportWritesNoRow ==
    \A p \in Procs :
        (proc[p].pc = "import_done" /\ proc[p].count = 0 /\ proc'[p] # proc[p])
            => market_history' = market_history

\* C17: import_dump re-checks coverage against the store's max timestamp at the time
\* of the import, not at selection time: a snapshot whose estimable coverage end is at
\* or before that max is not decoded, writes nothing to the store and returns 0, while
\* a snapshot whose coverage end is later (even by one second) or inestimable is
\* decoded.
C17_CoverageRecheckedAtImport ==
    [][RecheckAtImport /\ ZeroImportWritesNoRow]_vars

\* the store was empty when the run began; the first snapshot brought two rows, the
\* later one at second 3, and the second snapshot, whose coverage ends at second 1, was
\* then found covered and skipped without being decoded
C17_Witness ==
    \E p \in Procs :
        LET l == proc[p]
        IN  /\ l.to_process = <<PoolDump(2), PoolDump(1)>>
            /\ l.index = 2
            /\ l.pc = "import_done"
            /\ l.count = 0
            /\ l.current_max_timestamp = None
            /\ l.total_records = 2
            /\ l.errors = <<>>
            /\ GetCurrentMaxTimestamp(market_history) = Some(3)

\* a snapshot whose coverage ends one second after the store's max is decoded
C17_OneSecondLater ==
    \E p \in Procs :
        LET l == proc[p]
        IN  /\ l.to_process = <<NewerDump>>
            /\ l.pc = "decode"
            /\ l.current_max_timestamp = Some(1)
            /\ DumpCoverageEnd(NewerDump) = Some(2)

\* ------------------------------------------------------------- claim C18

\* the snapshots of the listing that are daily, not named in Import Metadata, and whose
\* coverage end cannot be estimated or lies strictly after the store's max timestamp
\* (every one of them when the store is empty)
Candidates ==
    {d \in {call.available[i] : i \in 1..Len(call.available)} :
        /\ d.dump_type = "daily"
        /\ \A m \in import_metadata : m.dump_name # d.name
        /\ \/ market_history = {}
           \/ DumpCoverageEnd(d) = None
           \/ Tick(Val(DumpCoverageEnd(d)), 0) > Val(MaxTimestamp(market_history))}

\* c comes before d: later coverage end, or the same coverage end and a later
\* modification time; a snapshot without a coverage end stands at its modification time
Precedes(c, d) ==
    LET end(x) == IF DumpCoverageEnd(x) # None THEN Val(DumpCoverageEnd(x))
                  ELSE x.modified_date
    IN  \/ end(c) > end(d)
        \/ (end(c) = end(d) /\ c.modified_date > d.modified_date)

\* C18: get_recommended_dumps never returns a snapshot named in Import Metadata; when
\* it returns a snapshot, it is the first, in order of coverage end descending with
\* ties broken by modification time descending, among the not-yet-imported daily
\* snapshots whose coverage end is inestimable or strictly greater than the store's max
\* timestamp; with an empty store it is the newest not-yet-imported candidate; it
\* returns nothing exactly when no such candidate exists.
C18_RecommendsFirstCandidate ==
    call.op = "get_recommended_dumps" =>
        /\ \A d \in Recommended : \A m \in import_metadata : m.dump_name # d.name
        /\ (call.result = <<>>) <=> (Candidates = {})
        /\ call.result # <<>> =>
              /\ Len(call.result) = 1
              /\ call.result[1] \in Candidates
              /\ \A c \in Candidates : ~Precedes(c, call.result[1])

\* the store has rows and both listed snapshots are candidates: the listing gives
\* the older candidate first and the later one second, and the later one is returned
C18_Witness ==
    /\ call.op = "get_recommended_dumps"
    /\ market_history # {}
    /\ Len(call.available) = 2
    /\ {call.available[1], call.available[2]} \subseteq Candidates
    /\ DumpCoverageEnd(call.available[1]) # None
    /\ DumpCoverageEnd(call.available[2]) # None
    /\ Precedes(call.available[2], call.available[1])
    /\ call.result = <<call.available[2]>>

\* ------------------------------------------------------------- claim C19

\* C19 as stated: get_recommended_dumps(available, max_count) never returns more than
\* max_count snapshots, for every max_count >= 0 and every list of available snapshots.
C19_AtMostMaxCount ==
    call.op = "get_recommended_dumps" => Len(call.result) <= call.max_dumps

\* C19 with the floor the code applies: get_recommended_dumps(available, max_count)
\* never returns more than max(1, max_count) snapshots, for every max_count >= 0 and
\* every list of available snapshots; a max_count of 0 is served as 1.
C19_AtMostMaxCountOrOne ==
    call.op = "get_recommended_dumps" => Len(call.result) <= Max2(1, call.max_dumps)

\* asked for 0 snapshots of a listing that holds two candidates, the call returned one
C19_Witness ==
    /\ call.op = "get_recommended_dumps"
    /\ call.max_dumps = 0
    /\ Len(call.available) = 2
    /\ import_metadata = {}
    /\ market_history = {}
    /\ Len(call.result) = 1

\* ------------------------------------------------------------- claim C20

InPercentRange(v) == Pct(0) <= v /\ v <= Pct(100)

\* C20: in every reachable state of the tracker, and in every snapshot returned by
\* get_update_progress, progress_pct lies in [0, 100], whatever values the pipeline
\* passes to the mutation calls.
C20_ProgressPctWithinRange ==
    /\ InPercentRange(progress.progress_pct)
    /\ call.returned # None => InPercentRange(Val(call.returned).progress.progress_pct)

\* a running Run stands at 100 after a call passed 150, and get_update_progress
\* returned it so
C20_Witness ==
    /\ call.op = "get_update_progress"
    /\ progress.status = "running"
    /\ progress.progress_pct = Pct(100)
    /\ Val(call.returned).progress.progress_pct = Pct(100)

\* ------------------------------------------------------------- claim C21

\* the worker has finalized the Run and given the lock back
RunEnded ==
    /\ update_lock = None
    /\ progress.status \in TerminalStatuses
    /\ progress.finished_at # None
    /\ \A p \in Procs : proc[p].pc = "ready"

\* download i of the worker waits for a slot
Queued(i) == i <= Len(proc[1].dl) /\ proc[1].dl[i] = "pending"

\* C21: under fair scheduling, every individual download and import step ending, every
\* started run eventually reaches status completed or failed and releases the run
\* lock, for parallel_downloads 1 and 2 and every number of selected snapshots up to
\* MaxDumps; every download queued behind the concurrency limit eventually starts.
C21_RunsEndAndQueuedDownloadsStart ==
    /\ <>RunEnded
    /\ \A i \in 1..MaxDumps : Queued(i) ~> ~Queued(i)

\* a run of MaxDumps snapshots, more than the limit lets download at once, has
\* completed and released the lock, every snapshot downloaded
C21_Witness ==
    /\ RunEnded
    /\ progress.status = "completed"
    /\ progress.max_dumps = Some(1)
    /\ progress.total_dumps = MaxDumps
    /\ Len(Val(progress.result).downloaded) = MaxDumps


\* ------------------------------------------------- claims C22 to C26, shared
\* the records the line read in this step added
NewRows == SubSeq(proc'.rows, Len(proc.rows) + 1, Len(proc'.rows))

\* the table whose rows a line holds: the table its own statement names, or the table
\* of the block it lies in
TableOf(line) ==
    IF line.kind \in {"copy", "insert"} THEN Some(line.table)
    ELSE IF proc.block = None THEN None
    ELSE Some(Val(proc.block).table)

LowerCase(text) ==
    [i \in DOMAIN text |-> IF text[i] = "MARKET_HISTORY" THEN "market_history" ELSE text[i]]

\* the name is market_history once schema qualifier and quotes are removed, whatever
\* its case
IsTargetTable(table) ==
    /\ table # None
    /\ LowerCase(NormalizeTableName(Val(table))) = Text("market_history")

\* the field a data line holds under one of `names`, by the header of its block
FieldNamed(line, names) ==
    LET columns == Val(proc.block).columns
        found == {i \in DOMAIN columns : /\ StripQuotes(columns[i]) \in names
                                         /\ i <= Len(line.fields)}
    IN  IF found = {} \/ line.fields[Least(found)] = Text("\\N") THEN None
        ELSE Some(line.fields[Least(found)])

\* the value at position i of a tuple
ValueAt(tuple, i) == IF i <= Len(tuple) THEN Some(tuple[i].s) ELSE None

\* what a data line, or one tuple, says about its row
SourceOfData(line) ==
    [item_id |-> FieldNamed(line, {Text("item_unique_name"), Text("item_id")}),
     timestamp |-> FieldNamed(line, {Text("timestamp")}),
     silver_amount |-> FieldNamed(line, {Text("silver_amount")}),
     quality |-> FieldNamed(line, {Text("quality_level"), Text("quality")}),
     location |-> FieldNamed(line, {Text("location")}),
     item_count |-> FieldNamed(line, {Text("item_count")}),
     values |-> Len(line.fields), expected |-> Len(Val(proc.block).columns)]

SourceOfTuple(tuple) ==
    [item_id |-> ValueAt(tuple, 4), timestamp |-> ValueAt(tuple, 7),
     silver_amount |-> ValueAt(tuple, 3), quality |-> ValueAt(tuple, 6),
     location |-> ValueAt(tuple, 5), item_count |-> ValueAt(tuple, 2),
     values |-> Len(tuple), expected |-> 8]

SourcesOf(line) ==
    IF line.kind = "data" THEN <<SourceOfData(line)>>
    ELSE [k \in DOMAIN line.tuples |-> SourceOfTuple(line.tuples[k])]

Present(value) == value # None /\ Val(value) # <<>>

\* the number a value stands for, if it stands for one
Number(value) == IF value = None THEN None ELSE ParseInt(Val(value))

\* the value is there, is not NULL, and is no number
NonNumeric(value) ==
    Present(value) /\ Val(value) \notin {Text("NULL"), Text("null")} /\ Number(value) = None

\* a source with every field, an item id, a timestamp and numbers where numbers belong
WellFormed(source) ==
    /\ source.values >= source.expected
    /\ Present(source.item_id) /\ Present(source.timestamp)
    /\ \A value \in {source.silver_amount, source.quality, source.location,
                     source.item_count} : ~NonNumeric(value)

\* a source the decoders turn into a record: an item id and a timestamp, and in a
\* tuple at least seven values
Keyed(line, source) ==
    /\ Present(source.item_id) /\ Present(source.timestamp)
    /\ line.kind = "data" \/ source.values >= 7

\* the line read is one the loop decodes
Decodes(line) ==
    \/ proc.in_copy /\ line.kind = "data"
    \/ proc.in_insert /\ line.kind = "tuples"
    \/ ~proc.in_copy /\ ~proc.in_insert /\ NamesMarketHistoryInsert(line) /\ line.text # <<>>

\* ------------------------------------------------------------- claim C22

\* C22: a record is written only for a COPY data line or an INSERT tuple of a table
\* whose name, without schema qualifier and quotes and whatever its case, is
\* market_history; every well-formed row of such a block is written; rows of other
\* tables are never written.
C22_RowsOnlyFromTargetTable ==
    [][LET line == Val(call')
       IN  /\ NewRows # <<>> => IsTargetTable(TableOf(line))
           /\ (/\ IsTargetTable(TableOf(line))
               /\ \E k \in DOMAIN SourcesOf(line) : WellFormed(SourcesOf(line)[k]))
              => NewRows # <<>>]_vars

\* the parts of the statement that hold: a block whose name is market_history in lower
\* case is decoded, under either syntax, and no record comes from a table whose name
\* does not hold the letters of market_history
C22_LowerCaseTargetIsDecoded ==
    [][LET line == Val(call')
       IN  /\ (NewRows # <<>>) =>
                  \E i \in DOMAIN Val(TableOf(line)) :
                      UpperHasMarketHistory(Val(TableOf(line))[i])
           /\ (/\ TableOf(line) # None
               /\ NormalizeTableName(Val(TableOf(line))) = Text("market_history")
               /\ \E k \in DOMAIN SourcesOf(line) : WellFormed(SourcesOf(line)[k]))
              => NewRows # <<>>]_vars

\* a well-formed data line of COPY public."MARKET_HISTORY" has been read and no record
\* was written
C22_UpperCaseCopyCase ==
    /\ proc.fed = 2
    /\ proc.block # None
    /\ Val(proc.block).table = <<"public", ".", "\"", "MARKET_HISTORY", "\"">>
    /\ call = Some(DataLine(<<"T4_BAG", "1002", "2", "2026-01-15 10:00:00", "2500">>))
    /\ proc.rows = <<>>

\* INSERT INTO market_history_old has been read and its tuple was written as a record
C22_OtherTableCase ==
    /\ proc.fed = 1
    /\ call = Some(InsertLine(<<"market_history_old">>, <<BagTuple>>, <<";">>))
    /\ Len(proc.rows) = 1


\* ------------------------------------------------------------- claim C23

\* the sources of a line that the decoders turn into records, in order
KeyedSources(line) == SelectSeq(SourcesOf(line), LAMBDA source : Keyed(line, source))

C23_DataLineCase ==
    /\ proc.in_copy /\ proc.fed = 4
    /\ call = Some(DataLine(<<"T4_BAG", "1002", "\\N", "2026-01-16 11:00:00">>))
    /\ Len(proc.rows) = 2
    /\ proc.rows[1].sell_price_min = Some(2500)
    /\ proc.rows[2].sell_price_min = None


\* ------------------------------------------------------------- claim C24

\* an item id and a timestamp, one price as minimum and maximum, no buy price
RowShape(row) ==
    /\ row.item_id # <<>> /\ row.timestamp # <<>>
    /\ row.sell_price_min = row.sell_price_max
    /\ row.buy_price_min = None /\ row.buy_price_max = None

\* C24 as stated: every record written, by either decoder, has a non-empty item id and
\* timestamp, the decoded silver amount as sell minimum and sell maximum, null buy
\* prices, and the decoded quality, or 1 where the dump gives none.
C24_RowsCarryDecodedQuality ==
    /\ [](\A k \in DOMAIN proc.rows : RowShape(proc.rows[k]))
    /\ [][LET line == Val(call')
              kept == KeyedSources(line)
          IN  /\ Len(NewRows) <= Len(kept)
              /\ \A k \in DOMAIN NewRows :
                    /\ NewRows[k].sell_price_min = Number(kept[k].silver_amount)
                    /\ NewRows[k].quality = IF Number(kept[k].quality) = None THEN 1
                                            ELSE Val(Number(kept[k].quality))]_vars

\* C24, amended: every record written, by either decoder, has a non-empty item id and
\* timestamp, the decoded silver amount as sell minimum and sell maximum, null buy
\* prices, and the decoded quality if that is a number other than 0, else 1.
C24_RowsCarryNonZeroQuality ==
    /\ [](\A k \in DOMAIN proc.rows : RowShape(proc.rows[k]))
    /\ [][LET line == Val(call')
              kept == KeyedSources(line)
          IN  /\ Len(NewRows) <= Len(kept)
              /\ \A k \in DOMAIN NewRows :
                    /\ NewRows[k].sell_price_min = Number(kept[k].silver_amount)
                    /\ NewRows[k].quality =
                          IF Number(kept[k].quality) \in {None, Some(0)} THEN 1
                          ELSE Val(Number(kept[k].quality))]_vars

\* INSERT INTO public.market_history VALUES (BagTuple),(QuotedTuple); was decoded: the
\* first record has the quality 2 of its tuple, the second, whose tuple says 0, has 1
C24_Witness ==
    /\ call = Some(InsertLine(<<"public", ".", "market_history">>,
                              <<BagTuple, QuotedTuple>>, <<";">>))
    /\ Len(proc.rows) = 2
    /\ proc.rows[1].quality = 2 /\ proc.rows[1].sell_price_max = Some(33959)
    /\ proc.rows[2].quality = 1 /\ proc.rows[2].sell_price_max = Some(50000)


\* ------------------------------------------------------------- claim C25

\* the row of the decoder round trip
RoundTripRow ==
    [item_id |-> Text("T4_BAG"), location |-> Text("Caerleon"), quality |-> 2,
     timestamp |-> Text("2026-01-15 10:00:00"),
     sell_price_min |-> Some(2500), sell_price_max |-> Some(2500),
     buy_price_min |-> None, buy_price_max |-> None, item_count |-> None]

\* the sequence s in the order perm
Reordered(s, perm) == [i \in DOMAIN s |-> s[perm[i]]]

\* C25: what a COPY data line is decoded to depends on the names of the header's
\* columns, not on their order: a line with a field for every column gives the same
\* outcome as the line and the header both reordered in any one way, and each value
\* of the record is the field under the column of its name. Under the columns
\* (item_unique_name, location, quality_level, timestamp, silver_amount) the line
\* T4_BAG, 1002, 2, 2026-01-15 10:00:00, 2500 gives exactly one record: T4_BAG,
\* Caerleon, quality 2, sell minimum and maximum 2500, no buy minimum.
C25_CopyDecodingIsByColumnName ==
    [][LET line == Val(call')
           columns == Val(proc.block).columns
           written == IF NewRows = <<>> THEN None ELSE Some(NewRows[1])
       IN  (proc.in_copy /\ line.kind = "data") =>
              /\ Len(NewRows) <= 1
              /\ Len(line.fields) = Len(columns) =>
                    \A perm \in Permutations(DOMAIN columns) :
                        RecordFromCopyFields(
                            SplitCopyLine([line EXCEPT !.fields = Reordered(@, perm)]),
                            ColumnMap(Reordered(columns, perm))) = written
              /\ \A k \in DOMAIN NewRows :
                    /\ Some(NewRows[k].item_id) = SourceOfData(line).item_id
                    /\ Some(NewRows[k].timestamp) = SourceOfData(line).timestamp
                    /\ NewRows[k].sell_price_min = Number(SourceOfData(line).silver_amount)
                    /\ NewRows[k].location = LocationName(Number(SourceOfData(line).location))
              /\ (/\ columns = RoundTripColumns
                  /\ line = DataLine(<<"T4_BAG", "1002", "2", "2026-01-15 10:00:00", "2500">>))
                 => NewRows = <<RoundTripRow>>]_vars

\* under the header that lists the columns in the other order and under their other
\* names, the round-trip line written in that order was decoded to the round-trip row
C25_Witness ==
    /\ proc.in_copy
    /\ proc.block # None /\ Val(proc.block).columns = OtherOrderColumns
    /\ call = Some(DataLine(<<"2026-01-15 10:00:00", "2500", "T4_BAG", "2", "1002">>))
    /\ proc.rows = <<RoundTripRow>>

\* the round trip itself: the header of the test, then its line
C25_RoundTripCase ==
    /\ proc.in_copy /\ proc.fed = 2
    /\ Val(proc.block).columns = RoundTripColumns
    /\ proc.rows = <<RoundTripRow>>


\* ------------------------------------------------------------- claim C26

\* the record of test_parse_value_tuples
TupleTestRow ==
    [item_id |-> Text("T4_BAG"), location |-> Text("Caerleon"), quality |-> 2,
     timestamp |-> Text("2026-01-15 10:00:00.000000"),
     sell_price_min |-> Some(33959), sell_price_max |-> Some(33959),
     buy_price_min |-> None, buy_price_max |-> None, item_count |-> Some(2)]

\* the tuples of a line that have at least seven values, an item id and a timestamp
KeyedTuples(line) ==
    SelectSeq(line.tuples, LAMBDA tuple : Keyed(line, SourceOfTuple(tuple)))

C27_HardResetEmptiesAndCounts ==
    [][call'.op = "hard_reset" =>
          /\ market_history' = {} /\ import_metadata' = {}
          /\ call'.removed.removed_records = Cardinality(market_history)
          /\ call'.removed.removed_imports = Cardinality(import_metadata)]_vars

\* hard_reset has returned 2 removed records and 1 removed import, the tables are empty
C27_Witness ==
    /\ call.op = "hard_reset"
    /\ call.removed = [removed_records |-> 2, removed_imports |-> 1]
    /\ market_history = {} /\ import_metadata = {}


\* ------------------------------------------------------------- claim C30

\* C30: in every state of the store, one with import metadata rows and no historical
\* record included, get_status reports as imported snapshot names exactly the names
\* that are keys of the import metadata.
C30_StatusNamesEveryImport ==
    [][call'.op = "get_status" =>
          call'.status.imported_dumps = {m.dump_name : m \in import_metadata}]_vars

\* what holds: the names are reported exactly when the store holds at least one
\* historical record, and none is reported when it holds none
C30_StatusNamesImportsOfNonEmptyStore ==
    [][call'.op = "get_status" =>
          call'.status.imported_dumps =
              IF market_history = {} THEN {} ELSE {m.dump_name : m \in import_metadata}]_vars

\* get_status was called on a store with a metadata row and no record, and reported no
\* imported snapshot
C30_MetadataWithoutRecordsCase ==
    /\ call.op = "get_status"
    /\ market_history = {} /\ import_metadata # {}
    /\ call.status.imported_dumps = {}

\* in the whole service: a run has ended that recorded a snapshot with record_count 0,
\* every archive it decoded had a market_history section, and the store holds no record
C30_ZeroImportRecorded ==
    /\ update_lock = None
    /\ progress.status = "completed"
    /\ market_history = {}
    /\ \E m \in import_metadata : m.record_count = 0
    /\ \A p \in Procs : proc[p].no_section = None


\* ------------------------------------------------------------- claim C28

\* download i of worker p, whose file was found in the download directory, returns
DownloadDumpReturnsCached(p, i) ==
    /\ i <= Len(proc[p].dl) /\ proc[p].dl[i] = "cached"
    /\ i > Len(proc'[p].dl) \/ proc'[p].dl[i] # "cached"

\* C28: download_dump for a snapshot whose file already exists in the download
\* directory makes no request (the download is never in the requested or open state
\* and nothing is written to the directory), returns the path of that file (the
\* download is settled as ok, the file still there), and has called the progress
\* callback exactly once, with (size_bytes, size_bytes): no call before it returns but
\* that one, and none after.
C28_CachedFileIsReturnedWithOneCallback ==
    /\ [](\A p \in Procs : \A i \in DOMAIN proc[p].dl :
             proc[p].dl[i] = "cached" =>
                /\ FileState(download_dir, proc[p].to_process[i].name) # None
                /\ proc[p].callbacks[i] = <<>>)
    /\ [][\A p \in Procs : \A i \in 1..MaxDumps :
            /\ DownloadDumpReturnsCached(p, i) =>
                  LET size_bytes == proc[p].to_process[i].size_bytes
                  IN  /\ proc'[p].dl[i] = "ok"
                      /\ download_dir' = download_dir
                      /\ proc'[p].callbacks[i] = <<<<size_bytes, Some(size_bytes)>>>>
            /\ (i <= Len(proc[p].dl) /\ proc[p].dl[i] = "ok" /\ i <= Len(proc'[p].callbacks))
                  => proc'[p].callbacks[i] \in {proc[p].callbacks[i], <<>>}]_vars

\* with the file of the first snapshot left in the directory by an earlier run, its
\* download has returned from the cache after one call of the callback, while the second
\* snapshot is being fetched
C28_Witness ==
    \E p \in Procs :
        /\ proc[p].pc = "downloading"
        /\ Len(proc[p].dl) >= 2
        /\ proc[p].dl[1] = "ok" /\ proc[p].dl[2] = "open"
        /\ proc[p].callbacks[1] = <<<<proc[p].to_process[1].size_bytes,
                                      Some(proc[p].to_process[1].size_bytes)>>>>
        /\ proc[p].callbacks[2] = <<>>
        /\ FileState(download_dir, proc[p].to_process[1].name) = Some("complete")
        /\ FileState(download_dir, proc[p].to_process[2].name) = Some("partial")


\* ---------------------------------------------------------------- claim C29

\* the two raw rows of the statement: one item, location and quality, two times of one day
StatedRows ==
    {HistoryRow(Tick(DateTime(0, 0), 0), Some(2500), None, Some(50)),
     HistoryRow(Tick(DateTime(0, 1), 0), Some(2600), None, Some(30))}

\* the two raw rows of test_get_aggregated_history: stack prices 2500 * 50 and 2600 * 30
TestedRows ==
    {HistoryRow(Tick(DateTime(0, 0), 0), Some(125000), None, Some(50)),
     HistoryRow(Tick(DateTime(0, 1), 0), Some(78000), None, Some(30))}

Aggregated == call'.op = "get_aggregated_history"

\* the count a price is divided by: 0 or absent counts as 1
UnitsOf(r) == IF r.item_count = None \/ Val(r.item_count) = 0 THEN 1 ELSE Val(r.item_count)

Abs(x) == IF x < 0 THEN 0 - x ELSE x

\* avg is an integer nearest to the mean of the per-unit sell prices of `priced`
\* (one or two rows)
NearestToMean(avg, priced) ==
    \/ \E r \in priced :
          /\ priced = {r}
          /\ 2 * Abs(avg * UnitsOf(r) - Val(r.sell_price_min)) <= UnitsOf(r)
    \/ \E r, s \in priced :
          /\ r # s /\ priced = {r, s}
          /\ Abs(avg * 2 * UnitsOf(r) * UnitsOf(s)
                 - (Val(r.sell_price_min) * UnitsOf(s) + Val(s.sell_price_min) * UnitsOf(r)))
               <= UnitsOf(r) * UnitsOf(s)

\* claim C29 as stated: the rows 2500 at 50 items and 2600 at 30 items of one day
\* aggregate to one daily bucket with average per-unit sell-min 50 and total_volume 80
C29_StatedRowsAverageTo50 ==
    [][(Aggregated /\ market_history = StatedRows) =>
          \E b \in call'.rows :
             /\ call'.rows = {b}
             /\ b.avg_sell_min = Some(50)
             /\ b.total_volume = Some(80)]_vars

\* claim C29, amended: every daily bucket holds the rows of one day; its avg_sell_min
\* is the nearest integer to the mean of price / item_count over its priced rows (0 or
\* absent count as 1, rows without price left out, no priced row gives none), its
\* total_volume the sum of the counts present, its data_points the number of rows. The
\* stated rows give one bucket with average 68 (the mean of 50 and 86.67) and volume
\* 80; the stack prices 125000 and 78000 give 2550.
C29_BucketsAveragePerUnitPrices ==
    [][Aggregated =>
          /\ \A r \in market_history :
                \E b \in call'.rows : b.period = DateTruncDay(r.timestamp)
          /\ \A b, c \in call'.rows : b.period = c.period => b = c
          /\ \A b \in call'.rows :
                LET members == {r \in market_history : DateTruncDay(r.timestamp) = b.period}
                    priced == {r \in members : r.sell_price_min # None}
                    counted == {r \in members : r.item_count # None}
                IN  /\ members # {}
                    /\ b.data_points = Cardinality(members)
                    /\ b.total_volume =
                          IF counted = {} THEN None ELSE Some(SumCounts(counted))
                    /\ IF priced = {} THEN b.avg_sell_min = None
                       ELSE /\ b.avg_sell_min # None
                            /\ NearestToMean(Val(b.avg_sell_min), priced)
          /\ market_history = StatedRows =>
                \E b \in call'.rows :
                   /\ call'.rows = {b}
                   /\ b.avg_sell_min = Some(68)
                   /\ b.total_volume = Some(80)
                   /\ b.data_points = 2
          /\ market_history = TestedRows =>
                \E b \in call'.rows :
                   /\ call'.rows = {b}
                   /\ b.avg_sell_min = Some(2550)
                   /\ b.total_volume = Some(80)]_vars

\* the stated rows have been aggregated into one bucket
C29_Witness ==
    /\ call.op = "get_aggregated_history"
    /\ market_history = StatedRows
    /\ \E b \in call.rows : call.rows = {b} /\ b.avg_sell_min = Some(68)

\* a row with item_count 0 and a row without item_count have been aggregated together
C29_ZeroAndAbsentCountCase ==
    /\ call.op = "get_aggregated_history"
    /\ \E r, s \in market_history :
          /\ r.item_count = Some(0) /\ s.item_count = None
          /\ DateTruncDay(r.timestamp) = DateTruncDay(s.timestamp)


\* ---------------------------------------------------------------- claim C31

\* the records the writer has written, in order
KeptRecords == {proc.writer.rows[k] : k \in 1..Len(proc.writer.rows)}

\* write_record returns at once: no item id or no timestamp
InvalidRecord(record) == record.item_id = None \/ record.timestamp = None

\* the record is at or before the cutoff the writer was made with
DroppedByCutoff(record) ==
    /\ ~InvalidRecord(record)
    /\ proc.cutoff # None
    /\ NormalizeTimestampForCompare(record.timestamp) # None
    /\ Val(NormalizeTimestampForCompare(record.timestamp)) <= Val(proc.cutoff)

\* date_start and date_end are the least and the greatest of `dates`, both null
\* exactly when nothing was written
RangeIsOver(dates) ==
    LET w == proc.writer
    IN  /\ w.count = Len(w.rows)
        /\ (w.date_start = None) <=> (w.count = 0)
        /\ (w.date_end = None) <=> (w.count = 0)
        /\ w.count > 0 =>
              /\ w.date_start # None /\ w.date_end # None
              /\ w.date_start \in {Some(d) : d \in dates}
              /\ w.date_end \in {Some(d) : d \in dates}
              /\ \A d \in dates : \A s \in w.date_start : \A e \in w.date_end :
                    s <= d /\ d <= e /\ s <= e

\* each write_record counts the record once: kept, dropped by the cutoff, or neither;
\* a dropped or invalid record changes neither count nor the date range
CountsFollowRecords ==
    \A record \in call' :
       LET w == proc.writer
           v == proc'.writer
       IN  /\ InvalidRecord(record) => v = w
           /\ DroppedByCutoff(record) =>
                 v = [w EXCEPT !.skipped_existing = @ + 1]
           /\ ~InvalidRecord(record) /\ ~DroppedByCutoff(record) =>
                 /\ v.count = w.count + 1
                 /\ v.skipped_existing = w.skipped_existing
                 /\ v.rows = Append(w.rows, record)

\* the dates of the normal forms of the kept records' timestamps
NormalizedDates ==
    {Val(NormalizeTimestampForCompare(r.timestamp)) \div DayLen :
        r \in {x \in KeptRecords : NormalizeTimestampForCompare(x.timestamp) # None}}

\* the dates of the kept records as write_record reads them: of the normal form, or
\* the head of the timestamp's text when it has no normal form
WrittenDates ==
    {DateValue(NormalizeTimestampForCompare(r.timestamp), r.timestamp) : r \in KeptRecords}

\* claim C31 as stated: count is the number of kept records, skipped_existing the
\* number dropped by the cutoff, and date_start and date_end are the minimum and the
\* maximum of the dates of the normalized timestamps of the kept records
C31_RangeIsOverNormalizedDates ==
    [](proc.writer.skipped_existing + proc.writer.count <= proc.fed /\ RangeIsOver(NormalizedDates))
        /\ [][CountsFollowRecords]_vars

\* claim C31, amended: the same, the date of a kept record whose timestamp has no
\* normal form being the first 10 characters of the timestamp's own text
C31_RangeIsOverWrittenDates ==
    [](proc.writer.skipped_existing + proc.writer.count <= proc.fed /\ RangeIsOver(WrittenDates))
        /\ [][CountsFollowRecords]_vars

\* two records of different days were kept, the later one first
C31_Witness ==
    /\ proc.writer.count = 2
    /\ proc.writer.date_start # None /\ proc.writer.date_end # None
    /\ proc.writer.date_start # proc.writer.date_end
    /\ DateValue(NormalizeTimestampForCompare(proc.writer.rows[1].timestamp),
                 proc.writer.rows[1].timestamp) = Val(proc.writer.date_end)

\* a record was dropped by the cutoff after one was kept
C31_SkippedAfterKeptCase ==
    /\ proc.writer.count = 1
    /\ proc.writer.skipped_existing = 1
    /\ proc.fed = 2
    /\ call # None /\ Val(call) \notin KeptRecords

\* a record whose timestamp has no normal form was kept
C31_KeptWithoutNormalFormCase ==
    \E r \in KeptRecords : NormalizeTimestampForCompare(r.timestamp) = None


\* ---------------------------------------------------------------- claim C32

\* a step of caller p in which an exception starts to unwind the run
Raises(p) == proc[p].exc = None /\ proc'[p].exc # None

\* a step of caller p that adds a per-snapshot message to errors[]
SnapshotFails(p) ==
    /\ proc[p].pc \in ImportPcs
    /\ proc'[p].pc \in ImportPcs
    /\ Len(proc'[p].errors) = Len(proc[p].errors) + 1

\* the Run is finalized by caller p in this step
Finalizes(p) ==
    proc[p].pc \in {"finalize_completed", "finalize_failed"} /\ proc'[p].pc = "release"

\* the Run shows a finished run that only individual snapshots may have failed in
CompletedRun ==
    /\ progress.result # None
    /\ \A result \in progress.result :
          /\ result.success = (result.errors = <<>>)
          /\ progress.errors = result.errors
          /\ \A k \in 1..Len(result.errors) :
                /\ result.errors[k].dump # None
                /\ \A name \in result.errors[k].dump :
                      \A j \in 1..Len(result.imported) : result.imported[j] # name

\* the Run shows a run ended by one exception that names no snapshot
FailedRun ==
    /\ Len(progress.errors) = 1
    /\ progress.errors[1].dump = None
    /\ progress.result = Some([success |-> FALSE, errors |-> progress.errors])

\* claim C32: a run is finalized as failed exactly when an exception escaped the pipeline,
\* which happens only outside the per-snapshot scope (listing, index rebuild); a failed
\* download or import adds its message and the loop goes on, and such a run is
\* finalized as completed with success = false and its messages in errors[]
C32_FailedOnlyByEscapedException ==
    [](/\ progress.status = "completed" => CompletedRun
       /\ progress.status = "failed" => FailedRun)
    /\ [][\A p \in Procs :
             /\ Raises(p) => proc[p].pc \in {"listing", "downloading", "recreate"}
             /\ Raises(p) /\ proc'[p].exc # Some("CancelledError") =>
                   proc[p].pc \in {"listing", "recreate"} /\ proc'[p].pc = "failed"
             /\ SnapshotFails(p) =>
                   /\ proc'[p].exc = proc[p].exc
                   /\ progress'.errors = proc'[p].errors
                   /\ progress'.status = "running"
             /\ Finalizes(p) =>
                   /\ progress'.run_id = proc[p].run_id
                   /\ progress'.status =
                         IF proc[p].exc # None THEN "failed" ELSE "completed"]_vars

\* a run in which the one selected snapshot failed has been finalized as completed
C32_Witness ==
    /\ progress.status = "completed"
    /\ Len(progress.errors) = 1
    /\ progress.errors[1].dump # None
    /\ \E result \in progress.result : ~result.success /\ result.imported = <<>>

\* a run has been finalized as failed after its index rebuild raised
C32_FailedRunCase ==
    /\ progress.status = "failed"
    /\ progress.errors = <<RunError("create_indexes failed")>>


\* ---------------------------------------------------------------- claim C33

\* claim C33: whenever the run lock is not held, the Run status is not running
C33_FreeLockMeansNoRunningRun ==
    update_lock = None => progress.status # "running"

\* every release of the lock by a run that was not cancelled comes after the Run was
\* finalized: the release leaves no running Run behind
C33_UncancelledRunsFinalizeFirst ==
    [][\A p \in Procs :
          (update_lock = Some(p) /\ update_lock' = None
              /\ proc[p].exc # Some("CancelledError")) =>
             progress'.status # "running"]_vars

\* an inline run was cancelled while it awaited the listing and has released the lock
C33_CancelledRunCase ==
    /\ update_lock = None
    /\ progress.status = "running"
    /\ \A p \in Procs : proc[p].pc = "ready"


\* ---------------------------------------------------------------- claim C34

\* the latest step returned {"started": False, "progress": ...}
StartRefused == call.op = "start_background_update" /\ ~call.started

\* claim C34: whenever start_background_update returns started = false, the progress
\* snapshot of the same response has status running
C34_RefusedStartShowsRunningRun ==
    StartRefused => call.out.progress.status = "running"

\* a start is refused only when the lock was held at the attempt, and the refusal
\* changes neither the lock nor the Run
C34_RefusedOnlyWhileLockHeld ==
    [][\A p \in Procs :
          (proc[p].pc = "ready" /\ proc'[p].pc = "refused") =>
             update_lock # None /\ update_lock' = update_lock /\ progress' = progress]_vars

\* a start was refused by a worker that had finalized its run and not yet released
\* the lock: the response shows a finished run
C34_FinishedRunCase ==
    /\ StartRefused
    /\ call.out.progress.status \in {"completed", "failed"}
    /\ \E p \in Procs : update_lock = Some(p) /\ proc[p].pc = "release"
                           /\ proc[p].mode = "background"

\* a start was refused by a caller that held the lock and had not yet started its Run
C34_BeforeStartCase ==
    /\ StartRefused
    /\ call.out.progress.status = "idle"


\* ---------------------------------------------------------------- claim C35

\* the names of a list, and the snapshots the messages of errors[] name
NamesIn(names) == {names[k] : k \in 1..Len(names)}
NamedInErrors(errors) == UNION {errors[k].dump : k \in 1..Len(errors)}

NoRepeats(s) == \A j, k \in 1..Len(s) : s[j] = s[k] => j = k

RECURSIVE RecordedCounts(_, _)
\* the record counts Import Metadata holds for the snapshots of a list
RecordedCounts(metadata, names) ==
    IF names = <<>> THEN 0
    ELSE (CHOOSE m \in metadata : m.dump_name = Head(names)).record_count
            + RecordedCounts(metadata, Tail(names))

\* the lists agree with each other: no snapshot twice, none both imported and failed,
\* imported within downloaded, cleaned_up within imported, total_records the sum of
\* the counts recorded for the imported snapshots
ListsAgree(imported, errors, downloaded, cleaned_up, total_records) ==
    /\ NoRepeats(imported) /\ NoRepeats(errors) /\ NoRepeats(cleaned_up)
    /\ \A k \in 1..Len(errors) : errors[k].dump # None
    /\ NamesIn(imported) \cap NamedInErrors(errors) = {}
    /\ NamesIn(imported) \subseteq NamesIn(downloaded)
    /\ NamesIn(cleaned_up) \subseteq NamesIn(imported)
    /\ \A name \in NamesIn(imported) : \E m \in import_metadata : m.dump_name = name
    /\ total_records = RecordedCounts(import_metadata, imported)

\* claim C35: in every run of _process_dumps over distinct snapshots the lists agree at
\* every moment, every snapshot the loop has passed is named in exactly one of
\* imported[] and errors[], and the result names every selected snapshot in exactly
\* one of them, the two lengths adding up to the number selected
C35_EverySnapshotImportedOrFailed ==
    \A p \in Procs :
       LET l == proc[p]
           passed == {l.to_process[k].name :
                         k \in 1..Min2(Len(l.to_process),
                                       IF l.index >= 1 THEN l.index - 1 ELSE 0)}
       IN  /\ ListsAgree(l.imported, l.errors, l.downloaded, l.cleaned_up, l.total_records)
           /\ NamesIn(l.imported) \cup NamedInErrors(l.errors) = passed
           /\ \A result \in l.result :
                 /\ ListsAgree(result.imported, result.errors, result.downloaded,
                               IF result.cleaned_up = None THEN <<>>
                               ELSE Val(result.cleaned_up), result.total_records)
                 /\ NamesIn(result.imported) \cup NamedInErrors(result.errors)
                       = {l.to_process[k].name : k \in 1..Len(l.to_process)}
                 /\ Len(result.imported) + Len(result.errors) = Len(l.to_process)

\* a run over three snapshots has returned: one failed, two were imported, one of
\* them with new rows, and a file was cleaned up
C35_Witness ==
    \E p \in Procs : \E result \in proc[p].result :
       /\ Len(proc[p].to_process) = 3
       /\ Len(result.errors) = 1
       /\ Len(result.imported) = 2
       /\ result.total_records > 0
       /\ result.cleaned_up # None
       /\ \E m \in import_metadata : m.record_count = 0


\* ---------------------------------------------------------------- claim C36

\* download i of caller p fails in this step after its file was opened
BodyFails(p, i) ==
    proc[p].dl[i] = "open" /\ i <= Len(proc'[p].dl) /\ proc'[p].dl[i] = "failed"

\* download_dump returns the existing file for download i of caller p in this step
ReturnsCached(p, i) ==
    proc[p].dl[i] = "cached" /\ i <= Len(proc'[p].dl) /\ proc'[p].dl[i] = "ok"

\* claim C36: a download that fails part-way through the body leaves no file under the
\* snapshot's name, and download_dump never returns a partially written file as
\* already downloaded
C36_BrokenDownloadLeavesNoFile ==
    [][\A p \in Procs : \A i \in 1..Len(proc[p].dl) :
          LET name == proc[p].to_process[i].name
          IN  /\ BodyFails(p, i) => FileState(download_dir', name) = None
              /\ ReturnsCached(p, i) => FileState(download_dir, name) # Some("partial")]_vars

\* a file that is opened and written by download_dump is complete once the download
\* has returned, unless it was unlinked meanwhile
C36_FinishedDownloadIsComplete ==
    [][\A p \in Procs : \A i \in 1..Len(proc[p].dl) :
          (proc[p].dl[i] = "open" /\ i <= Len(proc'[p].dl) /\ proc'[p].dl[i] = "ok") =>
             FileState(download_dir', proc[p].to_process[i].name) # Some("partial")]_vars

\* the second run has taken the partial file its predecessor left as downloaded
C36_PartialFileReturnedCase ==
    \E p \in Procs :
       /\ proc[p].run_id = Some(2)
       /\ proc[p].dl = <<"ok">>
       /\ FileState(download_dir, proc[p].to_process[1].name) = Some("partial")

\* the import of the partial file has failed and the file is still there
C36_PartialFileStaysCase ==
    \E p \in Procs :
       /\ proc[p].run_id = Some(2)
       /\ proc[p].dl = <<"ok">>
       /\ Len(proc[p].errors) = 1
       /\ proc[p].errors[1].kind = "Import failed"
       /\ FileState(download_dir, proc[p].to_process[1].name) = Some("partial")


\* ---------------------------------------------------------------- claim C37

\* run_id, started_at and finished_at are set exactly in the statuses that have them
TimesFollowStatus ==
    /\ progress.status \in {"idle", "running", "completed", "failed"}
    /\ (progress.run_id = None) <=> (progress.status = "idle")
    /\ (progress.started_at # None) <=> (progress.status # "idle")
    /\ (progress.finished_at # None) <=> (progress.status \in TerminalStatuses)

\* a finished Run stands at 100 percent in the stage named like its status
FinishedRunIsFull ==
    progress.status \in TerminalStatuses =>
       progress.progress_pct = Pct(100) /\ progress.stage = progress.status

\* the Run right after _start_progress: nothing of an earlier run is in it
FreshRun(p) ==
    /\ p.status = "running" /\ p.stage = "starting" /\ p.progress_pct = Pct(1)
    /\ p.finished_at = None /\ p.current_dump = None
    /\ p.total_dumps = 0 /\ p.completed_dumps = 0
    /\ p.downloaded_bytes = 0 /\ p.download_total_bytes = 0
    /\ p.records_parsed = 0 /\ p.records_skipped_existing = 0 /\ p.records_imported = 0
    /\ p.errors = <<>> /\ p.result = None

\* claim C37: in every reachable state run_id is null exactly when the status is idle,
\* started_at is set exactly when it is not idle, finished_at exactly when it is
\* completed or failed, and a completed or failed Run has progress_pct 100 and its
\* stage equal to its status; a newly started run carries nothing of an earlier run
C37_TrackerFieldsFollowStatus ==
    [](TimesFollowStatus /\ FinishedRunIsFull)
    /\ [][progress'.run_id # progress.run_id /\ progress'.run_id # None =>
             FreshRun(progress')]_vars

\* the part of C37 that holds for the tracker's methods called in any order
C37_TimesFollowStatusForAnyCalls ==
    [](TimesFollowStatus)
    /\ [][progress'.run_id # progress.run_id /\ progress'.run_id # None =>
             FreshRun(progress')]_vars

\* a second run has started over the record of a finished run
C37_Witness ==
    /\ progress.run_id = Some(2)
    /\ FreshRun(progress)
    /\ \A p \in Procs : proc[p].run_id = Some(2) => proc[p].pc = "pipeline"

\* the second run has been finalized
C37_FinalizedCase ==
    /\ progress.run_id = Some(2)
    /\ progress.status \in TerminalStatuses
    /\ progress.finished_at # None


\* ---------------------------------------------------------------- claim C38

\* no update is under way: the lock is free and every caller has returned
NoRunUnderWay == update_lock = None /\ \A p \in Procs : proc[p].pc = "ready"

\* claim C38: once a reset and the update it ran beside have both finished, Import
\* Metadata holds a row with record_count > 0 only if the store holds records
C38_ResetLeavesNoImportWithoutRecords ==
    NoRunUnderWay =>
       ((\E m \in import_metadata : m.record_count > 0) => market_history # {})

\* a run that no reset has run beside writes a row with record_count > 0 only into a
\* store that holds records
C38_UndisturbedRunRecordsAfterRows ==
    [][\A p \in Procs :
          (/\ proc[p].pc = "record_import"
           /\ proc'[p].pc = "import_done"
           /\ ~proc[p].reset_seen) =>
             /\ market_history # {}
             /\ \E m \in import_metadata' :
                   m.dump_name = proc[p].to_process[proc[p].index].name
                      /\ m.record_count = proc[p].count /\ m.record_count > 0]_vars

\* the reset ran between the bulk load and record_import of a background run: the run
\* has ended as completed, the snapshot is recorded with its count, the store is empty
C38_ResetBetweenLoadAndRecordCase ==
    /\ NoRunUnderWay
    /\ market_history = {}
    /\ \E m \in import_metadata : m.record_count > 0
    /\ progress.status = "completed"
    /\ \E result \in progress.result : result.success /\ result.total_records > 0


\* ---------------------------------------------------------------- claim C39

\* the step is a report of one run that is running before and after it
SameRunningRun ==
    /\ progress.status = "running" /\ progress'.status = "running"
    /\ progress'.run_id = progress.run_id

\* claim C39: while one run is running, progress_pct never decreases
C39_ProgressNeverDecreases ==
    [][SameRunningRun => progress'.progress_pct >= progress.progress_pct]_vars

\* progress_pct decreases only in three reports: the "Parsing" report of an import,
\* the "Downloading" report of a download that starts, and the "Imported k/n" report
C39_DecreasesOnlyInThreeReports ==
    [][SameRunningRun /\ progress'.progress_pct < progress.progress_pct =>
          progress'.message \in {"Parsing", "Downloading", "Imported dumps"}]_vars

\* apart from the "Parsing" report progress_pct decreases nowhere in a run over one
\* snapshot
C39_OneSnapshotDecreasesOnlyInParsing ==
    [][SameRunningRun /\ progress'.progress_pct < progress.progress_pct
          /\ progress.total_dumps <= 1 =>
             progress'.message = "Parsing"]_vars

\* no decrease in the "Downloading" report of a starting download: refuted for a
\* download that waited for a slot of the semaphore while another one progressed
C39_NoDecreaseAtDownloadStart ==
    [][SameRunningRun /\ progress'.message = "Downloading" =>
          progress'.progress_pct >= progress.progress_pct]_vars

\* no decrease in the "Imported k/n" report: refuted for a snapshot imported after
\* another one of the run failed
C39_NoDecreaseAtImported ==
    [][SameRunningRun /\ progress'.message = "Imported dumps" =>
          progress'.progress_pct >= progress.progress_pct]_vars

====
